---- MODULE Spec2Model ----
(***************************************************************************)
(* A model of the seasonal-growth game core: the population of world       *)
(* objects around the player on a toroidal world (ring seeding, distance   *)
(* management, season respawn), the radial force model of GameObject, and  *)
(* the frame loop of the sketch.                                           *)
(*                                                                         *)
(* Numbers.  The program computes in IEEE doubles.  The model computes in  *)
(* fixed point: a length, a size or a velocity is an integer count of      *)
(* 1/Unit pixels (Unit = 100), a zoom is an integer count of 1/1000, and   *)
(* a product with a decimal constant (0.95, 0.03, ...) is the integer      *)
(* product divided with truncation toward zero.  Random draws of the       *)
(* seeded generator and the biome map of world.js are inputs, chosen from  *)
(* small sets.                                                             *)
(***************************************************************************)
EXTENDS Integers, Sequences, FiniteSets, TLC

VARIABLES
    gameState,          \* sketch: gameState
    currentSeasonIndex, \* sketch: currentSeasonIndex
    seasonTimer,        \* sketch: seasonTimer
    player,             \* sketch: player (a Player)
    objects,            \* sketch: objects (array of GameObject)
    camera,             \* sketch: camera (a Camera)
    spawnCheckCounter,  \* sketch: spawnCheckCounter
    lastPlayerX,        \* sketch: lastPlayerX
    lastPlayerY,        \* sketch: lastPlayerY
    collectedCount,     \* sketch: collectedCount
    dpad,               \* PLAYER_1.DPAD: the directions held
    frames,             \* number of ticks so far (bounds the run)
    probe               \* the last operation applied, its inputs and its result

vars == <<gameState, currentSeasonIndex, seasonTimer, player, objects, camera,
          spawnCheckCounter, lastPlayerX, lastPlayerY, collectedCount, dpad, frames,
          probe>>

gameVars == <<gameState, currentSeasonIndex, seasonTimer, player, objects, camera,
              spawnCheckCounter, lastPlayerX, lastPlayerY, collectedCount, dpad, frames>>

-----------------------------------------------------------------------------
(* Fixed-point arithmetic *)

\* Units per pixel.
Unit == 10 * 10

px(n) == n * Unit

Abs(a) == IF a < 0 THEN -a ELSE a

Max(a, b) == IF a > b THEN a ELSE b

Min(a, b) == IF a < b THEN a ELSE b

Sign(a) == IF a < 0 THEN -1 ELSE 1

\* a / b truncated toward zero (b > 0).
TruncDiv(a, b) == IF a >= 0 THEN a \div b ELSE -((-a) \div b)

\* The remainder of JavaScript's %: it has the sign of the dividend.
JsRem(a, m) == IF a >= 0 THEN a % m ELSE -((-a) % m)

\* floor(a * m / b) for a, m >= 0 and b > 0, without forming a * m.
MulDiv(a, m, b) == (a \div b) * m + ((a % b) * m) \div b

\* a * num / den truncated toward zero, for a product with a decimal constant.
Scale(a, num, den) == Sign(a) * MulDiv(Abs(a), num, den)

RECURSIVE SqrtSearch(_, _, _)
SqrtSearch(n, lo, hi) ==
    IF lo >= hi THEN lo
    ELSE LET mid == (lo + hi + 1) \div 2
         IN  IF mid * mid <= n THEN SqrtSearch(n, mid, hi) ELSE SqrtSearch(n, lo, mid - 1)

\* floor(sqrt(n)) for 0 <= n < 2^31.
Isqrt(n) == SqrtSearch(n, 0, Min(n, 46340))

\* ceil(sqrt(n))
IsqrtUp(n) == LET r == Isqrt(n) IN IF r * r = n THEN r ELSE r + 1

RECURSIVE Root5Search(_, _, _)
Root5Search(n, lo, hi) ==
    IF lo >= hi THEN lo
    ELSE LET mid == (lo + hi + 1) \div 2
         IN  IF mid * mid * mid * mid * mid <= n
             THEN Root5Search(n, mid, hi) ELSE Root5Search(n, lo, mid - 1)

\* floor(n^(1/5)) for 0 <= n < 2^31.
Iroot5(n) == Root5Search(n, 0, Min(n, 73))

\* Squares of lengths above Fine units would overflow: such lengths are
\* measured in whole pixels.
Fine == 300 * Unit

Coarse(a) == Abs(a) > Fine

\* sqrt(dx^2 + dy^2), rounded down: to a unit below Fine, to a pixel above.
Hypot(dx, dy) ==
    IF Coarse(dx) \/ Coarse(dy)
    THEN Unit * Isqrt((Abs(dx) \div Unit) * (Abs(dx) \div Unit)
                      + (Abs(dy) \div Unit) * (Abs(dy) \div Unit))
    ELSE Isqrt(dx * dx + dy * dy)

\* sqrt(dx^2 + dy^2), rounded up the same way: a divisor that keeps the
\* quotient v / |v| within 1, as it is in exact arithmetic.
HypotUp(dx, dy) ==
    IF Coarse(dx) \/ Coarse(dy)
    THEN Unit * IsqrtUp(((Abs(dx) \div Unit) + 1) * ((Abs(dx) \div Unit) + 1)
                        + ((Abs(dy) \div Unit) + 1) * ((Abs(dy) \div Unit) + 1))
    ELSE IsqrtUp(dx * dx + dy * dy)

\* sqrt(dx^2 + dy^2) < r, and > r
DistLess(dx, dy, r) ==
    IF Coarse(dx) \/ Coarse(dy) \/ Coarse(r)
    THEN (Abs(dx) \div Unit) * (Abs(dx) \div Unit) + (Abs(dy) \div Unit) * (Abs(dy) \div Unit)
            < (r \div Unit) * (r \div Unit)
    ELSE dx * dx + dy * dy < r * r

DistMore(dx, dy, r) ==
    IF Coarse(dx) \/ Coarse(dy) \/ Coarse(r)
    THEN (Abs(dx) \div Unit) * (Abs(dx) \div Unit) + (Abs(dy) \div Unit) * (Abs(dy) \div Unit)
            > (r \div Unit) * (r \div Unit)
    ELSE dx * dx + dy * dy > r * r

Range(s) == {s[i] : i \in DOMAIN s}

-----------------------------------------------------------------------------
(* World dimensions (biomes.js) *)

WORLD_WIDTH == px(336 * 72)

WORLD_HEIGHT == px(262 * 72)

WORLD_CENTER_X == WORLD_WIDTH \div 2

WORLD_CENTER_Y == WORLD_HEIGHT \div 2

\* variant of Wrap for sensitivity runs: the coordinate is left unwrapped
WrapNever(v, dim) == v

\* ((v % dim) + dim) % dim
Wrap(v, dim) == JsRem(JsRem(v, dim) + dim, dim)

InWorld(x, y) == 0 <= x /\ x < WORLD_WIDTH /\ 0 <= y /\ y < WORLD_HEIGHT

-----------------------------------------------------------------------------
(* Player (player.js) *)

NoPlayer == [x |-> 0, y |-> 0, vx |-> 0, vy |-> 0, size |-> 0]

\* variant of canCollect for sensitivity runs: <= in place of <
canCollectInclusive(p, o) == o.size * 100 <= p.size * 95

\* Player.canCollect: obj.size < this.size * 0.95
canCollect(p, o) == o.size * 100 < p.size * 95

-----------------------------------------------------------------------------
(* GameObject (gameObject.js) *)

\* new GameObject(x, y, size, type): velocity zero, not collected.
GameObject(x, y, size, type) ==
    [x |-> x, y |-> y, size |-> size, type |-> type, vx |-> 0, vy |-> 0,
     collected |-> FALSE]

\* applyGravity: const maxVel = 15
maxVel == px(15)

\* update: this.vx *= 0.95
Friction(v) == Scale(v, 95, 100)

\* variant of StopSmallAt for sensitivity runs: small velocities are kept
StopSmallNever(v, unit) == v

\* update: if (Math.abs(this.vx) < 0.01) this.vx = 0, for lengths in 1/unit
StopSmallAt(v, unit) == IF Abs(v) * 100 < unit THEN 0 ELSE v

StopSmall(v) == StopSmallAt(v, Unit)

\* GameObject.update(worldWidth, worldHeight), for lengths in 1/unit pixel
updateAt(o, unit, worldWidth, worldHeight) ==
    IF o.vx # 0 \/ o.vy # 0
    THEN [o EXCEPT !.x = Wrap(o.x + o.vx, worldWidth),
                   !.y = Wrap(o.y + o.vy, worldHeight),
                   !.vx = StopSmallAt(Friction(o.vx), unit),
                   !.vy = StopSmallAt(Friction(o.vy), unit)]
    ELSE o

\* GameObject.update(worldWidth, worldHeight), called with both dimensions.
GameObject_update(o) == updateAt(o, Unit, WORLD_WIDTH, WORLD_HEIGHT)

\* applyGravity: the shortest path along one axis of the torus.
ShortestDelta(d, dim) ==
    IF 2 * Abs(d) > dim THEN (IF d > 0 THEN d - dim ELSE d + dim) ELSE d

\* a * 1000 / b, rounded down (a >= 0, b > 0)
Ratio1000(a, b) ==
    IF Coarse(a) \/ Coarse(b)
    THEN MulDiv(a \div Unit, 1000, b \div Unit)
    ELSE MulDiv(a, 1000, b)

\* applyGravity: 100 * Math.pow(playerSize / 12, 1.8), as x^2 / x^(1/5)
Pow18(playerSize) ==
    LET x100 == MulDiv(playerSize, 100, 12 * Unit)
        r10  == Iroot5(MulDiv(playerSize, 100000, 12 * Unit))
    IN  (x100 * x100) \div (10 * r10)

\* variant of attractability for sensitivity runs: 1 - sizeRatio, zero only
\* at the player's own size
attractabilityToFullSize(size, playerSize) == Max(0, 1000 - MulDiv(size, 1000, playerSize))

\* applyGravity: attractability = Math.max(0, 1 - sizeRatio * 1.2), in 1/1000
attractability(size, playerSize) == Max(0, 1000 - MulDiv(size, 1200, playerSize))

\* variant of gravityRadius for sensitivity runs: 200 pixels wider
gravityRadiusPadded(playerSize) ==
    MulDiv(MulDiv(playerSize, Isqrt(MulDiv(playerSize, 10000, 12 * Unit)), 100), 6, 10)
        + px(200)

\* applyGravity: gravityRadius = playerSize * Math.sqrt(playerSize / 12) * 0.6
gravityRadius(playerSize) ==
    MulDiv(MulDiv(playerSize, Isqrt(MulDiv(playerSize, 10000, 12 * Unit)), 100), 6, 10)

\* applyGravity: if (dist < 1) return
TooClose(dx, dy) == DistLess(dx, dy, px(1))

\* applyGravity: if (dist > gravityRadius) return
OutOfRange(dx, dy, playerSize) == DistMore(dx, dy, gravityRadius(playerSize))

\* applyGravity: distanceFactor = Math.pow(1 - normalizedDist, 2.5), in 1/1000
distanceFactor(dist, playerSize) ==
    LET om == Max(0, 1000 - Ratio1000(dist, gravityRadius(playerSize)))
    IN  MulDiv((om * om) \div 1000, Isqrt(om * 1000), 1000)

\* applyGravity: force = strength * sizeMultiplier * attractability * distanceFactor
gravityForce(strength, size, playerSize, dist) ==
    LET base == MulDiv(strength * Pow18(playerSize), 2 * Unit, 10000)
    IN  MulDiv(MulDiv(base, attractability(size, playerSize), 1000),
               distanceFactor(dist, playerSize), 1000)

\* variant of ClampVelocity for sensitivity runs: no cap
ClampNone(vx, vy) == <<vx, vy>>

\* applyGravity: if (vel > maxVel) scale the velocity to maxVel
ClampVelocity(vx, vy) ==
    IF DistMore(vx, vy, maxVel)
    THEN LET vel == HypotUp(vx, vy)
         IN  <<Scale(vx, maxVel, vel), Scale(vy, maxVel, vel)>>
    ELSE <<vx, vy>>

\* GameObject.applyGravity(targetX, targetY, strength, playerSize, W, H)
applyGravity(o, targetX, targetY, strength, playerSize) ==
    LET dx   == ShortestDelta(targetX - o.x, WORLD_WIDTH)
        dy   == ShortestDelta(targetY - o.y, WORLD_HEIGHT)
        dist == Hypot(dx, dy)
    IN  IF TooClose(dx, dy) THEN o
        ELSE IF OutOfRange(dx, dy, playerSize) THEN o
        ELSE LET force == gravityForce(strength, o.size, playerSize, dist)
                 nx    == Sign(dx) * Ratio1000(Abs(dx), dist)
                 ny    == Sign(dy) * Ratio1000(Abs(dy), dist)
                 v     == ClampVelocity(o.vx + TruncDiv(nx * force, 1000),
                                        o.vy + TruncDiv(ny * force, 1000))
             IN  [o EXCEPT !.vx = v[1], !.vy = v[2]]

-----------------------------------------------------------------------------
(* Sketch helpers (sketch.js) *)

\* getWrappedDistance: the two components of the wrapped distance
WrappedDx(x1, x2) ==
    LET d == Abs(x1 - x2) IN IF 2 * d > WORLD_WIDTH THEN WORLD_WIDTH - d ELSE d

WrappedDy(y1, y2) ==
    LET d == Abs(y1 - y2) IN IF 2 * d > WORLD_HEIGHT THEN WORLD_HEIGHT - d ELSE d

\* getWrappedDistance(x1, y1, x2, y2)
getWrappedDistance(x1, y1, x2, y2) == Hypot(WrappedDx(x1, x2), WrappedDy(y1, y2))

\* updateGame: const gravityStrength = 15
gravityStrength == 15

\* updateGame: the body of the gravity-and-update loop for one object
MotionObject(o, p) ==
    GameObject_update(
        IF ~o.collected /\ canCollect(p, o)
        THEN applyGravity(o, p.x, p.y, gravityStrength, p.size)
        ELSE o)

\* updateGame: for (const obj of objects) { applyGravity if collectible; update }
MotionStep(objs, p) == [i \in DOMAIN objs |-> MotionObject(objs[i], p)]

-----------------------------------------------------------------------------
(* Terrain (biomes.js) *)

ISLAND_RADIUS_X == Scale(WORLD_WIDTH, 35, 100)

ISLAND_RADIUS_Y == Scale(WORLD_HEIGHT, 35, 100)

\* getDistanceFromCenter(x, y), in 1/1000 of the island radius
getDistanceFromCenter(x, y) ==
    Hypot(MulDiv(Abs(x - WORLD_CENTER_X), 1000, ISLAND_RADIUS_X),
          MulDiv(Abs(y - WORLD_CENTER_Y), 1000, ISLAND_RADIUS_Y))

\* variant of getTerrainType for sensitivity runs: the coastline moves by 30%
getTerrainTypeWide(distFromCenter, noiseValue) ==
    LET adjustedDist == distFromCenter - TruncDiv((noiseValue - 500) * 6, 10)
    IN  IF adjustedDist < 850 THEN "land"
        ELSE IF adjustedDist < 950 THEN "beach"
        ELSE IF adjustedDist < 1050 THEN "wetland_shore"
        ELSE "ocean"

\* getTerrainType(distFromCenter, noiseValue), both in 1/1000
getTerrainType(distFromCenter, noiseValue) ==
    LET coastlineVariation == TruncDiv((noiseValue - 500) * 3, 10)
        adjustedDist       == distFromCenter - coastlineVariation
    IN  IF adjustedDist < 850 THEN "land"
        ELSE IF adjustedDist < 950 THEN "beach"
        ELSE IF adjustedDist < 1050 THEN "wetland_shore"
        ELSE "ocean"

\* TERRAIN_SPEED, in 1/1000
TERRAIN_SPEED == [normal |-> 1000, beach |-> 750, wetland |-> 700, ocean |-> 400]

TERRAIN_PENALTY_REDUCTION_SIZE == px(200)

\* getTerrainSpeedMultiplier(biome, playerSize), for a biome of the given terrainSpeed
getTerrainSpeedMultiplier(terrainSpeed, playerSize) ==
    LET baseSpeed        == TERRAIN_SPEED[terrainSpeed]
        sizeRatio        == Min(1000, Ratio1000(playerSize, TERRAIN_PENALTY_REDUCTION_SIZE))
        penaltyReduction == (sizeRatio * 8) \div 10
    IN  baseSpeed + ((1000 - baseSpeed) * penaltyReduction) \div 1000

\* The terrainSpeed of world.getBiomeAt(x, y): the biome map follows the terrain
\* bands of getTerrainType, here with the default noise value.
terrainSpeedAt(x, y) ==
    LET terrain == getTerrainType(getDistanceFromCenter(x, y), 500)
    IN  CASE terrain = "ocean" -> "ocean"
          [] terrain = "beach" -> "beach"
          [] terrain = "wetland_shore" -> "wetland"
          [] OTHER -> "normal"

-----------------------------------------------------------------------------
(* Player (player.js): movement *)

NoInput == [up |-> FALSE, down |-> FALSE, left |-> FALSE, right |-> FALSE]

\* 1000 * log10(x / 1000) for x >= 1000, to 1/8
RECURSIVE Log10(_)
Log10(x) ==
    IF x >= 10000 THEN 1000 + Log10(x \div 10)
    ELSE 125 * Cardinality({j \in 1..7 :
                 <<1334, 1778, 2371, 3162, 4217, 5623, 7499>>[j] <= x})

\* Player.getMomentumFactor(), in 1/1000
getMomentumFactor(size) == 1000 + (Log10(MulDiv(size, 1000, px(10))) * 3) \div 10

\* Math.sqrt(size / 12), in 1/1000
sizeSpeedScale(size) == Isqrt(MulDiv(size, 1000000, px(12)))

\* BASE_ACCELERATION * sizeSpeedScale / momentum * terrainSpeedMultiplier
acceleration(size, terrain) ==
    MulDiv(MulDiv(35, sizeSpeedScale(size), getMomentumFactor(size)), terrain, 1000)

\* the friction factor of Player.update, in 1/1000
playerFriction(size, terrain) ==
    LET momentum == getMomentumFactor(size)
        base     == 920 + (40 * (momentum - 1000)) \div momentum
    IN  IF terrain < 1000
        THEN MulDiv(base, 1000 - (1000 - terrain) \div 10, 1000)
        ELSE base

\* BASE_MAX_SPEED * sizeSpeedScale * terrainSpeedMultiplier
currentMaxSpeed(size, terrain) == MulDiv(MulDiv(450, sizeSpeedScale(size), 1000), terrain, 1000)

\* the wrap of Player.update: one correction each way
WrapOnce(v, dim) ==
    LET up == IF v < 0 THEN v + dim ELSE v
    IN  IF up >= dim THEN up - dim ELSE up

\* Player.update(input, worldWidth, worldHeight, world)
Player_update(p, input) ==
    LET terrain == getTerrainSpeedMultiplier(terrainSpeedAt(p.x, p.y), p.size)
        acc     == acceleration(p.size, terrain)
        ax      == (IF input.right THEN acc ELSE 0) - (IF input.left THEN acc ELSE 0)
        ay      == (IF input.down THEN acc ELSE 0) - (IF input.up THEN acc ELSE 0)
        fr      == playerFriction(p.size, terrain)
        fvx     == Scale(p.vx + ax, fr, 1000)
        fvy     == Scale(p.vy + ay, fr, 1000)
        limit   == currentMaxSpeed(p.size, terrain)
        over    == DistMore(fvx, fvy, limit)
        speed   == HypotUp(fvx, fvy)
        vx      == IF over THEN Scale(fvx, limit, speed) ELSE fvx
        vy      == IF over THEN Scale(fvy, limit, speed) ELSE fvy
    IN  [p EXCEPT !.vx = vx, !.vy = vy,
                  !.x = WrapOnce(p.x + vx, WORLD_WIDTH),
                  !.y = WrapOnce(p.y + vy, WORLD_HEIGHT)]

\* variant of grow for sensitivity runs: the amount is assigned, not added
growTo(p, amount) == [p EXCEPT !.size = amount]

\* Player.grow(amount)
grow(p, amount) == [p EXCEPT !.size = p.size + amount]

-----------------------------------------------------------------------------
(* Camera (camera.js) and zoom *)

SCREEN_WIDTH == px(336)

SCREEN_HEIGHT == px(262)

STARTING_SIZE == px(12)

PLANET_CONSUME_SIZE == px(2500)

MIN_ZOOM == 100

MAX_ZOOM == 4500

\* sketch: calculateZoom() (PLAYER_SCREEN_RATIO = 0.15)
calculateZoom(size) ==
    LET targetScreenSize == Scale(SCREEN_HEIGHT, 15, 100)
    IN  Max(MIN_ZOOM, Min(MAX_ZOOM, (targetScreenSize * 1000) \div size))

\* variant of setTargetZoom for sensitivity runs: the target is not clamped
setTargetZoomFree(cam, zoom) == [cam EXCEPT !.targetZoom = zoom]

\* Camera.setTargetZoom(zoom)
setTargetZoom(cam, zoom) == [cam EXCEPT !.targetZoom = Max(150, Min(2000, zoom))]

effectiveWidth(cam) == MulDiv(SCREEN_WIDTH, 1000, cam.zoom)

effectiveHeight(cam) == MulDiv(SCREEN_HEIGHT, 1000, cam.zoom)

\* the shortest-path correction of a camera delta
CameraDelta(d, dim) ==
    LET down == IF 2 * d > dim THEN d - dim ELSE d
    IN  IF 2 * down < -dim THEN down + dim ELSE down

\* Camera.follow(target): the camera position is never wrapped
follow(cam, target) ==
    LET zoomed == [cam EXCEPT !.zoom = cam.zoom + Scale(cam.targetZoom - cam.zoom, 3, 100)]
        dx == CameraDelta(target.x - effectiveWidth(zoomed) \div 2 - cam.x, WORLD_WIDTH)
        dy == CameraDelta(target.y - effectiveHeight(zoomed) \div 2 - cam.y, WORLD_HEIGHT)
    IN  [zoomed EXCEPT !.x = cam.x + Scale(dx, 8, 100), !.y = cam.y + Scale(dy, 8, 100)]

\* Camera.getVisibleBounds()
getVisibleBounds(cam) ==
    [left |-> cam.x, right |-> cam.x + effectiveWidth(cam),
     top |-> cam.y, bottom |-> cam.y + effectiveHeight(cam)]

\* Camera.centerOn(x, y)
centerOn(cam, x, y) ==
    [cam EXCEPT !.x = x - effectiveWidth(cam) \div 2, !.y = y - effectiveHeight(cam) \div 2]

\* new Camera(...)
NewCamera == [x |-> 0, y |-> 0, zoom |-> 1000, targetZoom |-> 1000]

-----------------------------------------------------------------------------
(* Content tables.  The object and biome tables are read from data files    *)
(* (data/objects.json, data/biomes.json) and the biome map is built by      *)
(* world.js; the tables below are a small instance with every kind of       *)
(* entry the code distinguishes: the three spawn patterns, a permanent      *)
(* type, a type gated by player size, an ocean biome, a biome with no       *)
(* objects.                                                                *)

Undef == -1

\* sketch: SEASON_CYCLE
SEASON_CYCLE == <<"spring", "summer", "fall", "winter">>

\* sketch: getCurrentSeason()
getCurrentSeason(seasonIndex) == SEASON_CYCLE[(seasonIndex % 4) + 1]

\* sketch: PERMANENT_EMOJIS (the emoji are named, not drawn)
PERMANENT_EMOJIS ==
    {"evergreen_tree", "deciduous_tree", "palm_tree", "rock", "house",
     "derelict_house", "hut", "convenience_store", "castle", "snow_mountain"}

\* biomes.js: the runtime object entries built by buildBiomes (weights in 1/1000)
ObjectTypes ==
    [berry  |-> [emoji |-> "strawberry", minSize |-> px(6), maxSize |-> px(10),
                 weight |-> 10000, spawnPattern |-> "scattered",
                 minPlayerSize |-> Undef, maxPlayerSize |-> px(200)],
     flower |-> [emoji |-> "blossom", minSize |-> px(8), maxSize |-> px(12),
                 weight |-> 5000, spawnPattern |-> "clustered",
                 minPlayerSize |-> Undef, maxPlayerSize |-> Undef],
     wheat  |-> [emoji |-> "sheaf_of_rice", minSize |-> px(10), maxSize |-> px(14),
                 weight |-> 3000, spawnPattern |-> "grid",
                 minPlayerSize |-> Undef, maxPlayerSize |-> Undef],
     tree   |-> [emoji |-> "evergreen_tree", minSize |-> px(40), maxSize |-> px(60),
                 weight |-> 2000, spawnPattern |-> "scattered",
                 minPlayerSize |-> Undef, maxPlayerSize |-> Undef],
     house  |-> [emoji |-> "house", minSize |-> px(80), maxSize |-> px(120),
                 weight |-> 50, spawnPattern |-> "scattered",
                 minPlayerSize |-> px(50), maxPlayerSize |-> Undef],
     fish   |-> [emoji |-> "fish", minSize |-> px(10), maxSize |-> px(20),
                 weight |-> 1000, spawnPattern |-> "scattered",
                 minPlayerSize |-> Undef, maxPlayerSize |-> Undef]]

TypeIds == DOMAIN ObjectTypes

\* biomes.js: BIOMES (density in 1/1000)
BIOMES ==
    [meadow   |-> [isOcean |-> FALSE, objectDensity |-> 700,
                   objects |-> [spring |-> <<"berry", "flower", "tree">>,
                                summer |-> <<"berry", "flower", "tree">>,
                                fall   |-> <<"berry", "tree">>,
                                winter |-> <<"tree">>]],
     farmland |-> [isOcean |-> FALSE, objectDensity |-> 500,
                   objects |-> [spring |-> <<"wheat", "house">>,
                                summer |-> <<"wheat", "house">>,
                                fall   |-> <<"wheat", "house">>,
                                winter |-> <<"house">>]],
     hills    |-> [isOcean |-> FALSE, objectDensity |-> 400,
                   objects |-> [spring |-> <<>>, summer |-> <<>>,
                                fall |-> <<>>, winter |-> <<>>]],
     ocean    |-> [isOcean |-> TRUE, objectDensity |-> 300,
                   objects |-> [spring |-> <<"fish">>, summer |-> <<"fish">>,
                                fall |-> <<"fish">>, winter |-> <<"fish">>]]]

BiomeIds == DOMAIN BIOMES

IsPermanent(o) == ObjectTypes[o.type].emoji \in PERMANENT_EMOJIS

\* biomes.js: shouldSpawnForPlayerSize(objDef, playerSize)
shouldSpawnForPlayerSize(type, playerSize) ==
    LET def == ObjectTypes[type]
    IN  /\ ~(def.minPlayerSize # Undef /\ playerSize < def.minPlayerSize)
        /\ ~(def.maxPlayerSize # Undef /\ playerSize > def.maxPlayerSize)

\* seasonalObjects.filter(obj => shouldSpawnForPlayerSize(obj, playerSize))
ValidObjects(biome, season, playerSize) ==
    SelectSeq(BIOMES[biome].objects[season],
              LAMBDA t : shouldSpawnForPlayerSize(t, playerSize))

-----------------------------------------------------------------------------
(* Random draws.  A random number is an integer r in 0..999 standing for    *)
(* r / 1000 in [0, 1); a direction is a unit vector in 1/1000 (the cosine   *)
(* and sine of the drawn angle).  A loop reads the draw of its i-th         *)
(* iteration from a tape, repeated cyclically.                             *)

DrawAt(tape, i) == tape[((i - 1) % Len(tape)) + 1]

\* minSize + rng.next() * (maxSize - minSize)
DrawSize(type, r) ==
    ObjectTypes[type].minSize
        + MulDiv(ObjectTypes[type].maxSize - ObjectTypes[type].minSize, r, 1000)

\* centre + Math.cos(angle) * dist, wrapped
Offset(c, dir, dist, dim) == Wrap(c + TruncDiv(dir * dist, 1000), dim)

\* 1000 * 0.5^(y / 1000): exact at whole exponents, to 1/8 in between
HalfPow(y) ==
    LET k == y \div 1000
        j == ((y % 1000) * 8) \div 1000
        f == <<1000, 917, 841, 771, 707, 648, 595, 545>>[j + 1]
    IN  IF k >= 10 THEN 0 ELSE f \div (2 ^ k)

\* (item.minSize + item.maxSize) / 2
avgSize(type) == (ObjectTypes[type].minSize + ObjectTypes[type].maxSize) \div 2

\* item.weight || 1
baseWeight(type) == IF ObjectTypes[type].weight = 0 THEN 1000 ELSE ObjectTypes[type].weight

\* variant of weightFactor for sensitivity runs: the reduction is not capped at 0.99
weightFactorUncapped(type, playerSize) ==
    IF avgSize(type) <= Scale(playerSize, 95, 100)
    THEN 1000 + (1000 - Ratio1000(avgSize(type), Scale(playerSize, 95, 100))) * 4
    ELSE HalfPow(Ratio1000(avgSize(type), Scale(playerSize, 95, 100)) - 1000)

\* weightedRandomSelect: boost, or 1 - reduction, of an entry (in 1/1000)
weightFactor(type, playerSize) ==
    LET threshold == Scale(playerSize, 95, 100)
        ratio     == Ratio1000(avgSize(type), threshold)
    IN  IF avgSize(type) <= threshold
        THEN 1000 + (1000 - ratio) * 4
        ELSE Max(10, HalfPow(ratio - 1000))

\* weightedRandomSelect: the adjusted weight of an entry (in 1/1000)
adjustedWeight(type, playerSize) ==
    MulDiv(baseWeight(type), weightFactor(type, playerSize), 1000)

RECURSIVE SumWeights(_, _)
SumWeights(items, playerSize) ==
    IF items = <<>> THEN 0
    ELSE adjustedWeight(Head(items), playerSize) + SumWeights(Tail(items), playerSize)

RECURSIVE PickByWeight(_, _, _, _)
PickByWeight(items, all, rand, playerSize) ==
    IF items = <<>> THEN all[1]
    ELSE LET rest == rand - adjustedWeight(Head(items), playerSize)
         IN  IF rest <= 0 THEN Head(items)
             ELSE PickByWeight(Tail(items), all, rest, playerSize)

\* weightedRandomSelect(items, rng, playerSize); "null" stands for null
weightedRandomSelect(items, r, playerSize) ==
    IF items = <<>> THEN "null"
    ELSE PickByWeight(items, items, MulDiv(SumWeights(items, playerSize), r, 1000),
                      playerSize)

-----------------------------------------------------------------------------
(* Pattern expansion and ring seeding.                                     *)
(* A pattern draw is [count, cols, rot, inst]: the draws for the instance   *)
(* count (rows of a grid), the grid columns, the grid rotation, and the     *)
(* tape of per-instance draws [dir, r, ocean, sz, jx, jy], where ocean is   *)
(* whether the biome map has ocean at the instance's position.             *)

\* variant of clusterRadius for sensitivity runs: twice the radius
clusterRadiusDouble(type) == 2 * Max(px(60), ObjectTypes[type].maxSize * 3)

\* Math.max(60, objDef.maxSize * 3)
clusterRadius(type) == Max(px(60), ObjectTypes[type].maxSize * 3)

\* Math.max(objDef.maxSize * 1.5, 35)
gridSpacing(type) == Max((ObjectTypes[type].maxSize * 3) \div 2, px(35))

\* one iteration of the cluster loop
ClusterInstance(seedX, seedY, type, d) ==
    LET dist == MulDiv(clusterRadius(type), d.r, 1000)
        x    == Offset(seedX, d.dir[1], dist, WORLD_WIDTH)
        y    == Offset(seedY, d.dir[2], dist, WORLD_HEIGHT)
    IN  IF d.ocean THEN <<>>
        ELSE <<GameObject(x, y, DrawSize(type, d.sz), type)>>

RECURSIVE ClusterLoop(_, _, _, _, _, _)
ClusterLoop(i, clusterCount, seedX, seedY, type, inst) ==
    IF i > clusterCount THEN <<>>
    ELSE ClusterInstance(seedX, seedY, type, DrawAt(inst, i))
             \o ClusterLoop(i + 1, clusterCount, seedX, seedY, type, inst)

\* sine and cosine (in 1/1000) of rng.next() * PI * 0.12 - PI * 0.06
gridSin(rot) == TruncDiv((rot - 500) * 187, 500)
gridCos(rot) == Isqrt(1000000 - gridSin(rot) * gridSin(rot))

\* variant of GridInstance for sensitivity runs: the centre cell is filled too
GridInstanceWithCentre(seedX, seedY, type, rows, cols, rot, row, col, d) ==
    IF d.ocean THEN <<>>
    ELSE <<GameObject(Wrap(seedX + col * gridSpacing(type), WORLD_WIDTH),
                      Wrap(seedY + row * gridSpacing(type), WORLD_HEIGHT),
                      DrawSize(type, d.sz), type)>>

\* one cell of the grid loop
GridInstance(seedX, seedY, type, rows, cols, rot, row, col, d) ==
    LET spacing  == gridSpacing(type)
        startX   == seedX - TruncDiv((cols - 1) * spacing, 2)
        startY   == seedY - TruncDiv((rows - 1) * spacing, 2)
        jitterX  == TruncDiv((d.jx - 500) * spacing, 5000)
        jitterY  == TruncDiv((d.jy - 500) * spacing, 5000)
        localX   == col * spacing + jitterX
        localY   == row * spacing + jitterY
        rotatedX == TruncDiv(localX * gridCos(rot) - localY * gridSin(rot), 1000)
        rotatedY == TruncDiv(localX * gridSin(rot) + localY * gridCos(rot), 1000)
        x        == Wrap(startX + rotatedX, WORLD_WIDTH)
        y        == Wrap(startY + rotatedY, WORLD_HEIGHT)
    IN  IF row = rows \div 2 /\ col = cols \div 2 THEN <<>>
        ELSE IF d.ocean THEN <<>>
        ELSE <<GameObject(x, y, DrawSize(type, d.sz), type)>>

RECURSIVE GridLoop(_, _, _, _, _, _, _, _)
GridLoop(k, seedX, seedY, type, rows, cols, rot, inst) ==
    IF k >= rows * cols THEN <<>>
    ELSE GridInstance(seedX, seedY, type, rows, cols, rot,
                      k \div cols, k % cols, DrawAt(inst, k + 1))
             \o GridLoop(k + 1, seedX, seedY, type, rows, cols, rot, inst)

\* spawnPatternObjects(seedX, seedY, objDef, rng)
spawnPatternObjects(seedX, seedY, type, pd) ==
    LET pattern == ObjectTypes[type].spawnPattern
    IN  CASE pattern = "clustered" ->
                ClusterLoop(1, 4 + (pd.count * 7) \div 1000, seedX, seedY, type, pd.inst)
          [] pattern = "grid" ->
                GridLoop(0, seedX, seedY, type, 3 + (pd.count * 3) \div 1000,
                         4 + (pd.cols * 4) \div 1000, pd.rot, pd.inst)
          [] OTHER -> <<>>

\* variant of SeedAttempt for sensitivity runs: the pattern instances are
\* pushed without the break at targetCount
SeedAttemptNoBreak(centerX, centerY, maxRadius, ringIndex, season, playerSize, room, d) ==
    LET dist   == MulDiv(maxRadius, Isqrt(d.r * 1000), 1000)
        x      == Offset(centerX, d.dir[1], dist, WORLD_WIDTH)
        y      == Offset(centerY, d.dir[2], dist, WORLD_HEIGHT)
        valid  == ValidObjects(d.biome, season, playerSize)
        objDef == weightedRandomSelect(valid, d.sel, playerSize)
    IN  IF BIOMES[d.biome].objects[season] = <<>> THEN <<>>
        ELSE IF ringIndex > 0 /\ d.dens > BIOMES[d.biome].objectDensity THEN <<>>
        ELSE IF valid = <<>> THEN <<>>
        ELSE <<GameObject(x, y, DrawSize(objDef, d.sz), objDef)>>
                 \o spawnPatternObjects(x, y, objDef, d.pat)

\* the objects one seeding attempt pushes, given the room left in the ring
\* (draw d = [dir, r, biome, dens, sel, sz, pat])
SeedAttempt(centerX, centerY, maxRadius, ringIndex, season, playerSize, room, d) ==
    LET dist   == MulDiv(maxRadius, Isqrt(d.r * 1000), 1000)
        x      == Offset(centerX, d.dir[1], dist, WORLD_WIDTH)
        y      == Offset(centerY, d.dir[2], dist, WORLD_HEIGHT)
        biome  == BIOMES[d.biome]
        valid  == ValidObjects(d.biome, season, playerSize)
        objDef == weightedRandomSelect(valid, d.sel, playerSize)
        seed   == GameObject(x, y, DrawSize(objDef, d.sz), objDef)
        more   == spawnPatternObjects(x, y, objDef, d.pat)
    IN  IF biome.objects[season] = <<>> THEN <<>>
        ELSE IF ringIndex > 0 /\ d.dens > biome.objectDensity THEN <<>>
        ELSE IF valid = <<>> THEN <<>>
        ELSE <<seed>> \o SubSeq(more, 1, Min(Len(more), room - 1))

\* one iteration of the seeding loop: nothing once the target is met
SeedStep(i, added, centerX, centerY, maxRadius, targetCount, ringIndex, season, playerSize, tape) ==
    IF Len(added) < targetCount
    THEN added \o SeedAttempt(centerX, centerY, maxRadius, ringIndex, season, playerSize,
                              targetCount - Len(added), DrawAt(tape, i + 1))
    ELSE added

\* the iterations lo..hi of the seeding loop, in order: the first half, then
\* the second half on its result
RECURSIVE SeedLoop(_, _, _, _, _, _, _, _, _, _, _)
SeedLoop(lo, hi, added, centerX, centerY, maxRadius, targetCount, ringIndex, season, playerSize, tape) ==
    IF lo > hi THEN added
    ELSE IF lo = hi
    THEN SeedStep(lo, added, centerX, centerY, maxRadius, targetCount, ringIndex, season,
                  playerSize, tape)
    ELSE CHOOSE result \in
             {SeedLoop((lo + hi) \div 2 + 1, hi, half, centerX, centerY, maxRadius,
                       targetCount, ringIndex, season, playerSize, tape) :
                 half \in {SeedLoop(lo, (lo + hi) \div 2, added, centerX, centerY, maxRadius,
                                    targetCount, ringIndex, season, playerSize, tape)}} : TRUE

\* spawnObjectsAroundPlayer(centerX, centerY, maxRadius, targetCount, ringIndex):
\* the objects it pushes, in order (their number is the value it returns)
spawnObjectsAroundPlayer(centerX, centerY, maxRadius, targetCount, ringIndex, season, playerSize, tape) ==
    SeedLoop(0, targetCount * 5 - 1, <<>>, centerX, centerY, maxRadius, targetCount,
             ringIndex, season, playerSize, tape)

-----------------------------------------------------------------------------
(* Distance management (sketch.js: updateDistanceBasedSpawning) *)

BASE_SPAWN_RADIUS == px(400)

BASE_DESPAWN_RADIUS == px(600)

BASE_KEEP_RADIUS == px(250)

\* 30 in the source: the pass runs on every SPAWN_CHECK_INTERVAL-th tick
SPAWN_CHECK_INTERVAL == 3

\* 1500 in the source: the cap on the population
MAX_OBJECTS == 6

\* variant of ZoomScaled for sensitivity runs: zoomScale = camera.zoom
ZoomScaledProduct(base, zoom) == MulDiv(base, zoom, 1000)

\* BASE * zoomScale, with zoomScale = 1 / camera.zoom
ZoomScaled(base, zoom) == MulDiv(base, 1000, zoom)

\* getWrappedDistance(obj.x, obj.y, playerX, playerY) < radius
Within(o, playerX, playerY, radius) ==
    DistLess(WrappedDx(o.x, playerX), WrappedDy(o.y, playerY), radius)

\* the despawn loop: objectsToKeep
objectsToKeep(objs, playerX, playerY, despawnRadius) ==
    SelectSeq(objs, LAMBDA o : Within(o, playerX, playerY, despawnRadius))

\* variant of EvictionCompare for sensitivity runs: by distance alone
CompareByDistance(a, b, playerX, playerY, keepRadius, playerSize) ==
    LET distA == getWrappedDistance(a.x, a.y, playerX, playerY)
        distB == getWrappedDistance(b.x, b.y, playerX, playerY)
    IN  IF distA < distB THEN 1 ELSE IF distA > distB THEN -1 ELSE 0

\* variant of EvictionCompare for sensitivity runs: the tests of the other
\* object (&& !nearCollectibleB, && !nearB) are left out
EvictionCompareOneSided(a, b, playerX, playerY, keepRadius, playerSize) ==
    LET distA == getWrappedDistance(a.x, a.y, playerX, playerY)
        distB == getWrappedDistance(b.x, b.y, playerX, playerY)
        nearA == Within(a, playerX, playerY, keepRadius)
        nearB == Within(b, playerX, playerY, keepRadius)
    IN  IF nearA THEN 1
        ELSE IF nearB THEN -1
        ELSE IF Max(distA, Unit) < Max(distB, Unit) THEN 1
        ELSE IF Max(distA, Unit) > Max(distB, Unit) THEN -1
        ELSE 0

\* the comparator of the cap's sort: its sign for (a, b)
EvictionCompare(a, b, playerX, playerY, keepRadius, playerSize) ==
    LET distA == getWrappedDistance(a.x, a.y, playerX, playerY)
        distB == getWrappedDistance(b.x, b.y, playerX, playerY)
        nearA == Within(a, playerX, playerY, keepRadius)
        nearB == Within(b, playerX, playerY, keepRadius)
        nearCollectibleA == nearA /\ a.size * 100 < playerSize * 95
        nearCollectibleB == nearB /\ b.size * 100 < playerSize * 95
    IN  IF nearCollectibleA /\ ~nearCollectibleB THEN 1
        ELSE IF nearCollectibleB /\ ~nearCollectibleA THEN -1
        ELSE IF nearA /\ ~nearB THEN 1
        ELSE IF nearB /\ ~nearA THEN -1
        ELSE IF Max(distA, Unit) < Max(distB, Unit) THEN 1
        ELSE IF Max(distA, Unit) > Max(distB, Unit) THEN -1
        ELSE 0

\* Array.prototype.sort is stable: an element goes behind the elements that
\* do not compare greater than it.
RECURSIVE SortInsert(_, _, _, _, _, _)
SortInsert(sorted, o, playerX, playerY, keepRadius, playerSize) ==
    IF sorted = <<>> THEN <<o>>
    ELSE IF EvictionCompare(sorted[Len(sorted)], o, playerX, playerY, keepRadius,
                            playerSize) > 0
    THEN Append(SortInsert(SubSeq(sorted, 1, Len(sorted) - 1), o, playerX, playerY,
                           keepRadius, playerSize),
                sorted[Len(sorted)])
    ELSE Append(sorted, o)

RECURSIVE EvictionSort(_, _, _, _, _)
EvictionSort(objs, playerX, playerY, keepRadius, playerSize) ==
    IF objs = <<>> THEN <<>>
    ELSE SortInsert(EvictionSort(SubSeq(objs, 1, Len(objs) - 1), playerX, playerY,
                                 keepRadius, playerSize),
                    objs[Len(objs)], playerX, playerY, keepRadius, playerSize)

\* if (objects.length > MAX_OBJECTS) { sort; slice(length - MAX_OBJECTS) }
EnforceCap(objs, playerX, playerY, keepRadius, playerSize) ==
    IF Len(objs) > MAX_OBJECTS
    THEN SubSeq(EvictionSort(objs, playerX, playerY, keepRadius, playerSize),
                Len(objs) - MAX_OBJECTS + 1, Len(objs))
    ELSE objs

\* Math.floor(Math.PI * visibleRadius^2 / (150 * 150)), PI as 355 / 113
targetDensity(visibleRadius) ==
    LET r == visibleRadius \div 10
    IN  (((r * r) \div 2250) * 355) \div 113000

\* densityDeficit
densityDeficit(objs, playerX, playerY, visibleRadius) ==
    Max(0, targetDensity(visibleRadius)
             - Len(SelectSeq(objs, LAMBDA o : Within(o, playerX, playerY, visibleRadius))))

\* variant of DistanceSpawn for sensitivity runs: the distance is drawn from
\* 0.4 to 0.8 times the spawn radius
DistanceSpawnInside(playerX, playerY, spawnRadius, season, playerSize, d) ==
    LET dist   == Scale(spawnRadius, 4, 10) + MulDiv(Scale(spawnRadius, 4, 10), d.r, 1000)
        newX   == Offset(playerX, d.dir[1], dist, WORLD_WIDTH)
        newY   == Offset(playerY, d.dir[2], dist, WORLD_HEIGHT)
        biome  == BIOMES[d.biome]
        valid  == ValidObjects(d.biome, season, playerSize)
        objDef == weightedRandomSelect(valid, d.sel, playerSize)
    IN  IF biome.objects[season] = <<>> THEN <<>>
        ELSE IF valid = <<>> THEN <<>>
        ELSE IF d.dens > biome.objectDensity THEN <<>>
        ELSE <<GameObject(newX, newY, DrawSize(objDef, d.sz), objDef)>>

\* one iteration of the spawn loop (draw d = [dir, r, biome, dens, sel, sz])
DistanceSpawn(playerX, playerY, spawnRadius, season, playerSize, d) ==
    LET dist   == Scale(spawnRadius, 8, 10) + MulDiv(Scale(spawnRadius, 4, 10), d.r, 1000)
        newX   == Offset(playerX, d.dir[1], dist, WORLD_WIDTH)
        newY   == Offset(playerY, d.dir[2], dist, WORLD_HEIGHT)
        biome  == BIOMES[d.biome]
        valid  == ValidObjects(d.biome, season, playerSize)
        objDef == weightedRandomSelect(valid, d.sel, playerSize)
    IN  IF biome.objects[season] = <<>> THEN <<>>
        ELSE IF valid = <<>> THEN <<>>
        ELSE IF d.dens > biome.objectDensity THEN <<>>
        ELSE <<GameObject(newX, newY, DrawSize(objDef, d.sz), objDef)>>

RECURSIVE SpawnLoop(_, _, _, _, _, _, _, _)
SpawnLoop(i, spawnCount, playerX, playerY, spawnRadius, season, playerSize, tape) ==
    IF i > spawnCount THEN <<>>
    ELSE DistanceSpawn(playerX, playerY, spawnRadius, season, playerSize, DrawAt(tape, i))
             \o SpawnLoop(i + 1, spawnCount, playerX, playerY, spawnRadius, season,
                          playerSize, tape)

\* updateDistanceBasedSpawning(): the new values of the variables it writes,
\* with the intermediate values of the pass (ran: the pass got past both
\* early returns; kept: after the despawn loop; capped: after the cap).
updateDistanceBasedSpawning(objs, counter, lastX, lastY, p, zoom, seasonIndex, tape) ==
    LET spawnRadius   == ZoomScaled(BASE_SPAWN_RADIUS, zoom)
        despawnRadius == ZoomScaled(BASE_DESPAWN_RADIUS, zoom)
        keepRadius    == ZoomScaled(BASE_KEEP_RADIUS, zoom)
        moveThreshold == ZoomScaled(px(50), zoom)
        early         == [objects |-> objs, spawnCheckCounter |-> counter + 1,
                          lastPlayerX |-> lastX, lastPlayerY |-> lastY, ran |-> FALSE,
                          kept |-> objs, capped |-> objs, spawnCount |-> 0]
        kept          == objectsToKeep(objs, p.x, p.y, despawnRadius)
        capped        == EnforceCap(kept, p.x, p.y, keepRadius, p.size)
        deficit       == densityDeficit(capped, p.x, p.y, spawnRadius \div 2)
        spawnCount    == Min(Len(objs) - Len(kept) + deficit, MAX_OBJECTS - Len(capped))
        spawned       == SpawnLoop(1, spawnCount, p.x, p.y, spawnRadius,
                                   getCurrentSeason(seasonIndex), p.size, tape)
    IN  IF counter + 1 < SPAWN_CHECK_INTERVAL THEN early
        ELSE IF DistLess(WrappedDx(p.x, lastX), WrappedDy(p.y, lastY), moveThreshold)
        THEN [early EXCEPT !.spawnCheckCounter = 0]
        ELSE [objects |-> capped \o spawned, spawnCheckCounter |-> 0,
              lastPlayerX |-> p.x, lastPlayerY |-> p.y, ran |-> TRUE,
              kept |-> kept, capped |-> capped, spawnCount |-> Max(0, spawnCount)]

-----------------------------------------------------------------------------
(* Season transition (sketch.js: advanceSeason, respawnOffScreenObjects) *)

\* sketch: STATE (a reserved word here); "undefined" is the value of STATE.WIN,
\* a key the object does not have
GameStates == [TITLE |-> "title", PLAYING |-> "playing", PLANET_CONSUMED |-> "planet_consumed",
               WIN |-> "undefined"]

\* 10 in the source: the number of seasons of a game
TOTAL_SEASONS == 2

\* 15 * 60 in the source: the ticks of one season
SEASON_DURATION == 10

\* 8000 in the source: respawnOffScreenObjects' targetObjectCount
targetObjectCount == 8

\* respawnOffScreenObjects: const margin = 200
respawnMargin == px(200)

\* the on-screen test of respawnOffScreenObjects, on raw coordinates
isOnScreen(x, y, bounds) ==
    /\ x > bounds.left - respawnMargin
    /\ x < bounds.right + respawnMargin
    /\ y > bounds.top - respawnMargin
    /\ y < bounds.bottom + respawnMargin

\* respawnOffScreenObjects: onScreenObjects
onScreenObjects(objs, bounds) ==
    SelectSeq(objs, LAMBDA o : isOnScreen(o.x, o.y, bounds) \/ IsPermanent(o))

\* generateLandSpawnPoints: the point of one iteration (none if in the ocean);
\* draw d = [dir, r, biome, dens, sel, sz], biome the biome at the point
LandPoint(d) ==
    LET distRatio == (Isqrt(d.r * 1000) * 85) \div 100
        x == WORLD_CENTER_X + TruncDiv(d.dir[1] * MulDiv(ISLAND_RADIUS_X, distRatio, 1000), 1000)
        y == WORLD_CENTER_Y + TruncDiv(d.dir[2] * MulDiv(ISLAND_RADIUS_Y, distRatio, 1000), 1000)
    IN  IF BIOMES[d.biome].isOcean THEN <<>> ELSE <<[x |-> x, y |-> y, d |-> d]>>

\* generateOceanSpawnPoints: the point of one iteration
OceanPoint(d) ==
    LET distRatio == 1100 + (d.r * 3) \div 10
        x == WORLD_CENTER_X + TruncDiv(d.dir[1] * MulDiv(ISLAND_RADIUS_X, distRatio, 1000), 1000)
        y == WORLD_CENTER_Y + TruncDiv(d.dir[2] * MulDiv(ISLAND_RADIUS_Y, distRatio, 1000), 1000)
    IN  IF x < px(50) \/ x > WORLD_WIDTH - px(50) \/ y < px(50) \/ y > WORLD_HEIGHT - px(50)
        THEN <<>>
        ELSE IF BIOMES[d.biome].isOcean THEN <<[x |-> x, y |-> y, d |-> d]>> ELSE <<>>

RECURSIVE generateLandSpawnPoints(_, _, _)
generateLandSpawnPoints(i, count, tape) ==
    IF i > count THEN <<>>
    ELSE LandPoint(DrawAt(tape, i)) \o generateLandSpawnPoints(i + 1, count, tape)

RECURSIVE generateOceanSpawnPoints(_, _, _)
generateOceanSpawnPoints(i, count, tape) ==
    IF i > count THEN <<>>
    ELSE OceanPoint(DrawAt(tape, i)) \o generateOceanSpawnPoints(i + 1, count, tape)

\* respawnOffScreenObjects: the object one spawn point yields
RespawnAt(point, bounds, season, playerSize) ==
    LET d      == point.d
        biome  == BIOMES[d.biome]
        valid  == ValidObjects(d.biome, season, playerSize)
        objDef == weightedRandomSelect(valid, d.sel, playerSize)
    IN  IF isOnScreen(point.x, point.y, bounds) THEN <<>>
        ELSE IF biome.objects[season] = <<>> THEN <<>>
        ELSE IF d.dens > biome.objectDensity THEN <<>>
        ELSE IF valid = <<>> THEN <<>>
        ELSE <<GameObject(point.x, point.y, DrawSize(objDef, d.sz), objDef)>>

RECURSIVE RespawnLoop(_, _, _, _)
RespawnLoop(points, bounds, season, playerSize) ==
    IF points = <<>> THEN <<>>
    ELSE RespawnAt(Head(points), bounds, season, playerSize)
             \o RespawnLoop(Tail(points), bounds, season, playerSize)

\* respawnOffScreenObjects(): the new population
respawnOffScreenObjects(objs, cam, seasonIndex, playerSize, landTape, oceanTape) ==
    LET season       == getCurrentSeason(seasonIndex)
        bounds       == getVisibleBounds(cam)
        retained     == onScreenObjects(objs, bounds)
        objectsToAdd == Max(0, targetObjectCount - Len(retained))
        landPoints   == generateLandSpawnPoints(1, (objectsToAdd * 8) \div 10, landTape)
        oceanPoints  == generateOceanSpawnPoints(1, (objectsToAdd * 2) \div 10, oceanTape)
    IN  retained \o RespawnLoop(landPoints, bounds, season, playerSize)
                 \o RespawnLoop(oceanPoints, bounds, season, playerSize)

-----------------------------------------------------------------------------
(* Collisions and growth (player.js, sketch.js) *)

\* Player.collidesWith(obj, worldWidth, worldHeight)
collidesWith(p, o) ==
    DistLess(ShortestDelta(p.x - o.x, WORLD_WIDTH), ShortestDelta(p.y - o.y, WORLD_HEIGHT),
             (p.size + o.size) \div 2)

\* Player.bounceFrom(objX, objY, worldWidth, worldHeight)
bounceFrom(p, objX, objY) ==
    LET dx        == ShortestDelta(p.x - objX, WORLD_WIDTH)
        dy        == ShortestDelta(p.y - objY, WORLD_HEIGHT)
        dist      == HypotUp(dx, dy)
        knockback == (300 * sizeSpeedScale(p.size)) \div 1000
    IN  IF dx = 0 /\ dy = 0 THEN p
        ELSE [p EXCEPT !.vx = Scale(dx, knockback, dist), !.vy = Scale(dy, knockback, dist)]

\* calculateGrowthAmount(objectSize, playerSize)
calculateGrowthAmount(objectSize, playerSize) ==
    Max(Unit \div 10,
        MulDiv(Scale(objectSize, 4, 100), Isqrt(Ratio1000(objectSize, playerSize) * 1000), 1000))

\* variant of CollisionStep for sensitivity runs: an overlapping object is
\* collected whether or not canCollect admits it
CollisionStepNoTest(i, st) ==
    IF st.objects[i].collected \/ ~collidesWith(st.player, st.objects[i]) THEN st
    ELSE [player |-> grow(st.player, calculateGrowthAmount(st.objects[i].size, st.player.size)),
          objects |-> SubSeq(st.objects, 1, i - 1) \o SubSeq(st.objects, i + 1, Len(st.objects)),
          collectedCount |-> st.collectedCount + 1,
          gameState |-> st.gameState]

\* updateGame: one iteration of the collision loop, on the object at index i
CollisionStep(i, st) ==
    LET obj == st.objects[i]
    IN  IF obj.collected \/ ~collidesWith(st.player, obj) THEN st
        ELSE IF canCollect(st.player, obj)
        THEN LET grown == grow(st.player, calculateGrowthAmount(obj.size, st.player.size))
             IN  [player |-> grown,
                  objects |-> SubSeq(st.objects, 1, i - 1)
                                \o SubSeq(st.objects, i + 1, Len(st.objects)),
                  collectedCount |-> st.collectedCount + 1,
                  gameState |-> IF grown.size >= PLANET_CONSUME_SIZE
                                THEN GameStates.PLANET_CONSUMED ELSE st.gameState]
        ELSE [st EXCEPT !.player = bounceFrom(st.player, obj.x, obj.y)]

\* updateGame: the collision loop, from the last object to the first
RECURSIVE CollisionLoop(_, _)
CollisionLoop(i, st) ==
    IF i < 1 THEN st ELSE CollisionLoop(i - 1, CollisionStep(i, st))

-----------------------------------------------------------------------------
(* The state after construction of the sketch: the title screen *)

NoCamera == [x |-> 0, y |-> 0, zoom |-> 1000, targetZoom |-> 1000]

Init ==
    /\ gameState = GameStates.TITLE
    /\ currentSeasonIndex = 0
    /\ seasonTimer = 0
    /\ player = NoPlayer
    /\ objects = <<>>
    /\ camera = NoCamera
    /\ spawnCheckCounter = 0
    /\ lastPlayerX = 0
    /\ lastPlayerY = 0
    /\ collectedCount = 0
    /\ dpad = NoInput
    /\ frames = 0
    /\ probe = [op |-> "none"]

-----------------------------------------------------------------------------
(* Draws and tapes *)

East == <<1000, 0>>

West == <<-1000, 0>>

South == <<0, 1000>>

North == <<0, -1000>>

SouthEast == <<600, 800>>

NorthWest == <<-800, -600>>

Still == [dir |-> East, r |-> 0, ocean |-> FALSE, sz |-> 0, jx |-> 500, jy |-> 500]

\* pattern draws: the fewest instances, all laid on the seed
NoSpread == [count |-> 0, cols |-> 0, rot |-> 500, inst |-> <<Still>>]

\* pattern draws: the most instances, thrown outward to the east
Spread ==
    [count |-> 999, cols |-> 999, rot |-> 999,
     inst |-> <<[dir |-> East, r |-> 999, ocean |-> FALSE, sz |-> 999, jx |-> 999, jy |-> 999],
                [dir |-> NorthWest, r |-> 500, ocean |-> TRUE, sz |-> 0, jx |-> 0, jy |-> 0]>>]

Draw(dir, r, biome, dens, sel, sz, pat) ==
    [dir |-> dir, r |-> r, biome |-> biome, dens |-> dens, sel |-> sel, sz |-> sz, pat |-> pat]

-----------------------------------------------------------------------------
(* The game: start, the d-pad, the tick *)

\* ticks of a run
MaxFrames == 20

\* the d-pad changes on every PressInterval-th tick only
PressInterval == 8

\* spawnWorldObjects: the rings' radii
RingRadii == <<px(100), px(300), px(600), px(1000)>>

\* spawnWorldObjects: the rings' target counts (80, 120, 150, 150 in the
\* source), cut down with the cap
RingTargetCounts == <<2, 1, 1, 1>>

RECURSIVE SeedRings(_, _, _, _, _, _)
SeedRings(ring, playerX, playerY, season, playerSize, tapes) ==
    IF ring > Len(RingRadii) THEN <<>>
    ELSE spawnObjectsAroundPlayer(playerX, playerY, RingRadii[ring], RingTargetCounts[ring],
                                  ring - 1, season, playerSize, tapes[ring])
             \o SeedRings(ring + 1, playerX, playerY, season, playerSize, tapes)

\* spawnWorldObjects(): the new population
spawnWorldObjects(p, seasonIndex, tapes) ==
    SeedRings(1, p.x, p.y, getCurrentSeason(seasonIndex), p.size, tapes)

\* world.getStartPosition(): the island's centre, and places by the world's seam
StartPositions ==
    {<<WORLD_CENTER_X, WORLD_CENTER_Y>>, <<px(1), WORLD_CENTER_Y>>,
     <<WORLD_WIDTH - px(1), WORLD_HEIGHT - px(1)>>}

TapeNearFar ==
    <<Draw(East, 1, "meadow", 0, 0, 500, NoSpread),
      Draw(NorthWest, 900, "meadow", 0, 999, 999, NoSpread)>>

TapeCluster ==
    <<Draw(SouthEast, 999, "meadow", 300, 800, 0, Spread),
      Draw(West, 500, "hills", 0, 0, 0, NoSpread)>>

TapeMixed ==
    <<Draw(South, 640, "farmland", 900, 0, 500, Spread),
      Draw(North, 999, "ocean", 0, 0, 999, NoSpread),
      Draw(West, 4, "meadow", 500, 999, 0, NoSpread)>>

TapeOcean ==
    <<Draw(North, 999, "ocean", 0, 0, 999, NoSpread),
      Draw(East, 0, "ocean", 200, 0, 0, NoSpread)>>

GameTapes == {TapeNearFar, TapeCluster, TapeMixed, TapeOcean}

\* the tapes a loop can read when it runs; one tape when it does not run
TapesIf(runs) == IF runs THEN GameTapes ELSE {TapeNearFar}

RingTapes == {<<t, t, t, t>> : t \in GameTapes}

\* startGame()
StartGame ==
    /\ gameState \in {GameStates.TITLE, GameStates.PLANET_CONSUMED}
    /\ \E pos \in StartPositions : \E tapes \in RingTapes :
          LET p == [x |-> pos[1], y |-> pos[2], vx |-> 0, vy |-> 0, size |-> STARTING_SIZE]
          IN  /\ player' = p
              /\ camera' = centerOn(NewCamera, p.x, p.y)
              /\ objects' = spawnWorldObjects(p, 0, tapes)
              /\ lastPlayerX' = p.x
              /\ lastPlayerY' = p.y
    /\ currentSeasonIndex' = 0
    /\ collectedCount' = 0
    /\ seasonTimer' = 0
    /\ gameState' = GameStates.PLAYING
    /\ probe' = [op |-> "startGame"]
    /\ UNCHANGED <<spawnCheckCounter, dpad, frames>>

Inputs ==
    {[NoInput EXCEPT !.right = TRUE],
     [NoInput EXCEPT !.right = TRUE, !.down = TRUE],
     [NoInput EXCEPT !.left = TRUE, !.up = TRUE]}

\* the player changes the directions held
Press ==
    /\ gameState = GameStates.PLAYING
    /\ frames % PressInterval = 0
    /\ \E input \in Inputs \cup {NoInput} : input # dpad /\ dpad' = input
    /\ UNCHANGED <<gameState, currentSeasonIndex, seasonTimer, player, objects, camera,
                   spawnCheckCounter, lastPlayerX, lastPlayerY, collectedCount, frames,
                   probe>>

\* variant of seasonClock for sensitivity runs: the season turns one tick late
seasonClockLate(index, timer, state, total, duration) ==
    [currentSeasonIndex |-> IF timer + 1 > duration THEN index + 1 ELSE index,
     seasonTimer |-> IF timer + 1 > duration THEN 0 ELSE timer + 1,
     gameState |-> IF timer + 1 > duration /\ index + 1 >= total THEN GameStates.WIN ELSE state,
     turn |-> timer + 1 > duration,
     over |-> timer + 1 > duration /\ index + 1 >= total]

\* updateGame: seasonTimer++ and, when it reaches the duration, advanceSeason()
\* as far as the index, the timer and the state of the game go
seasonClock(index, timer, state, total, duration) ==
    [currentSeasonIndex |-> IF timer + 1 >= duration THEN index + 1 ELSE index,
     seasonTimer |-> IF timer + 1 >= duration THEN 0 ELSE timer + 1,
     gameState |-> IF timer + 1 >= duration /\ index + 1 >= total THEN GameStates.WIN ELSE state,
     turn |-> timer + 1 >= duration,
     over |-> timer + 1 >= duration /\ index + 1 >= total]

\* updateGame(), its last step: the season timer and advanceSeason(), on the
\* camera, the distance pass and the collisions of the tick
SeasonStep(cam, pass, hit, landTape, oceanTape) ==
    LET clock == seasonClock(currentSeasonIndex, seasonTimer, hit.gameState, TOTAL_SEASONS,
                             SEASON_DURATION)
        respawn == clock.turn /\ ~clock.over
    IN  [player |-> hit.player,
         camera |-> cam,
         objects |-> IF respawn
                     THEN respawnOffScreenObjects(hit.objects, cam, currentSeasonIndex + 1,
                                                  hit.player.size, landTape, oceanTape)
                     ELSE hit.objects,
         collectedCount |-> hit.collectedCount,
         gameState |-> clock.gameState,
         currentSeasonIndex |-> clock.currentSeasonIndex,
         seasonTimer |-> clock.seasonTimer,
         pass |-> pass,
         hit |-> hit,
         respawn |-> respawn]

\* updateGame() from the motion loop on: gravity and motion of the objects the
\* distance pass left, then the collisions, then the season
MotionAndCollisions(moved, cam, pass, landTape, oceanTape) ==
    SeasonStep(cam, pass,
               CollisionLoop(Len(pass.objects),
                             [player |-> moved, objects |-> MotionStep(pass.objects, moved),
                              collectedCount |-> collectedCount, gameState |-> gameState]),
               landTape, oceanTape)

\* updateGame() from the distance pass on
DistanceAndAfter(moved, cam, distanceTape, landTape, oceanTape) ==
    MotionAndCollisions(moved, cam,
                        updateDistanceBasedSpawning(objects, spawnCheckCounter, lastPlayerX,
                                                    lastPlayerY, moved, cam.zoom,
                                                    currentSeasonIndex, distanceTape),
                        landTape, oceanTape)

\* updateGame() from the camera on
CameraAndAfter(moved, distanceTape, landTape, oceanTape) ==
    DistanceAndAfter(moved, follow(setTargetZoom(camera, calculateZoom(moved.size)), moved),
                     distanceTape, landTape, oceanTape)

\* updateGame(): the state after one tick, with what the tick did
updateGame(distanceTape, landTape, oceanTape) ==
    CameraAndAfter(Player_update(player, dpad), distanceTape, landTape, oceanTape)

\* one frame of p.draw in the playing state
Tick ==
    /\ gameState = GameStates.PLAYING
    /\ frames < MaxFrames
    /\ \E distanceTape \in TapesIf(spawnCheckCounter + 1 >= SPAWN_CHECK_INTERVAL),
          landTape \in TapesIf(seasonTimer + 1 >= SEASON_DURATION) :
          \E t \in {updateGame(distanceTape, landTape, TapeOcean)} :
              /\ player' = t.player
              /\ camera' = t.camera
              /\ objects' = t.objects
              /\ collectedCount' = t.collectedCount
              /\ gameState' = t.gameState
              /\ currentSeasonIndex' = t.currentSeasonIndex
              /\ seasonTimer' = t.seasonTimer
              /\ spawnCheckCounter' = t.pass.spawnCheckCounter
              /\ lastPlayerX' = t.pass.lastPlayerX
              /\ lastPlayerY' = t.pass.lastPlayerY
              /\ probe' = [op |-> "tick", passRan |-> t.pass.ran, respawn |-> t.respawn,
                           before |-> Len(objects), kept |-> Len(t.pass.kept),
                           spawned |-> Len(t.pass.objects) - Len(t.pass.capped),
                           collected |-> t.hit.collectedCount - collectedCount]
    /\ frames' = frames + 1
    /\ UNCHANGED dpad

Next == StartGame \/ Press \/ Tick

Spec == Init /\ [][Next]_vars

\* C1 (as the specification states it): after any tick, a tick on which a
\* season transition runs included, the population holds at most MAX_OBJECTS
\* objects.
C1_PopulationWithinCap == probe.op = "tick" => Len(objects) <= MAX_OBJECTS

AllInWorld(objs) == \A i \in DOMAIN objs : InWorld(objs[i].x, objs[i].y)

\* C4: at the end of every tick (and after the start of a game) the player's
\* position and every object's position lie in [0, WORLD_WIDTH) x
\* [0, WORLD_HEIGHT), whichever of ring seeding, pattern expansion, distance
\* spawning and season respawn created the object and however it has moved.
C4_PositionsInWorld ==
    probe.op \in {"tick", "startGame"} => InWorld(player.x, player.y) /\ AllInWorld(objects)

\* C4 witness: a tick has carried the player across the world's seam, from
\* its start one pixel east of it, with objects seeded on both sides of it.
C4_Witness ==
    /\ probe.op = "tick"
    /\ lastPlayerX = px(1)
    /\ player.x > WORLD_WIDTH - px(20)
    /\ \E i \in DOMAIN objects : objects[i].x < px(200)
    /\ \E i \in DOMAIN objects : objects[i].x > WORLD_WIDTH - px(1000)

-----------------------------------------------------------------------------
(* updateDistanceBasedSpawning applied to drawn populations                 *)

\* an object of a type at a distance from the player, in a direction; the
\* i-th of its row lies i pixels farther out
Placed(p, dir, dist, size, type, i) ==
    GameObject(Offset(p.x, dir[1], dist + px(i), WORLD_WIDTH),
               Offset(p.y, dir[2], dist + px(i), WORLD_HEIGHT), size, type)

Row(p, dir, dist, size, type, n) == [i \in 1..n |-> Placed(p, dir, dist, size, type, i)]

\* A population: rocks-and-trees close by, berries close by, berries at middle
\* distance, a tree and a berry far off; n[k] of each.
Population(p, n) ==
    Row(p, South, px(40), px(50), "tree", n[1])
        \o Row(p, East, px(90), px(8), "berry", n[2])
        \o Row(p, West, px(280), px(8), "berry", n[3])
        \o Row(p, North, px(900), px(50), "tree", n[4])
        \o Row(p, SouthEast, px(1500), px(8), "berry", n[5])

PopulationCounts ==
    {<<a, b, c, d, e>> : a \in {0, MAX_OBJECTS}, b \in {0, 2, MAX_OBJECTS + 1},
                         c \in {0, 2}, d \in {0, 1}, e \in {0, 1}}

DistancePlayers ==
    {[x |-> xy[1], y |-> xy[2], vx |-> 0, vy |-> 0, size |-> sz] :
        xy \in {<<WORLD_CENTER_X, WORLD_CENTER_Y>>, <<px(30), px(9000)>>},
        sz \in {px(12), px(100)}}

DistanceZooms == {1000, 2000}

\* how far the player has come since the last pass
DistanceMoves == {0, px(25), px(50) - 1, px(50), px(100)}

DistanceCounters == {0, SPAWN_CHECK_INTERVAL - 1}

DistancePassCall ==
    /\ probe.op = "none"
    /\ \E p \in DistancePlayers, n \in PopulationCounts, zoom \in DistanceZooms,
          move \in DistanceMoves, counter \in DistanceCounters, tape \in GameTapes :
          \E out \in {updateDistanceBasedSpawning(Population(p, n), counter,
                          Wrap(p.x - move, WORLD_WIDTH), p.y, p, zoom, 0, tape)} :
              probe' = [op |-> "distancePass", p |-> p, zoom |-> zoom,
                        in |-> Population(p, n), out |-> out, counter |-> counter,
                        lastPlayerX |-> Wrap(p.x - move, WORLD_WIDTH), lastPlayerY |-> p.y]
    /\ UNCHANGED gameVars

SpecDistance == Init /\ [][DistancePassCall]_vars

\* the objects of a list that another list no longer holds
Removed(before, after) == {o \in Range(before) : o \notin Range(after)}

\* C3 (as the specification states it): the distance-management pass removes
\* no permanent object, neither by the despawn radius nor by the cap, however
\* far the object is from the player.
C3_PermanentNeverRemoved ==
    probe.op = "distancePass" =>
        \A o \in Removed(probe.in, probe.out.objects) : ~IsPermanent(o)

\* within the keep radius of the player and collectible
NearCollectible(o, p, zoom) ==
    /\ Within(o, p.x, p.y, ZoomScaled(BASE_KEEP_RADIUS, zoom))
    /\ canCollect(p, o)

\* the cap was enforced in the pass
CapEnforced == probe.op = "distancePass" /\ Len(probe.out.capped) < Len(probe.out.kept)

-----------------------------------------------------------------------------
(* respawnOffScreenObjects applied to drawn populations and cameras         *)

SeasonPlayers ==
    {[x |-> xy[1], y |-> xy[2], vx |-> 0, vy |-> 0, size |-> sz] :
        xy \in {<<WORLD_CENTER_X, WORLD_CENTER_Y>>, <<px(100), px(9000)>>,
                <<WORLD_WIDTH - px(60), WORLD_HEIGHT - px(40)>>},
        sz \in {px(12), px(100)}}

\* The camera centred on the player; its position is never wrapped, so after
\* laps walks of the player around the world, eastward, it lies laps world
\* widths to the east.
SeasonCamera(p, zoom, laps) ==
    LET cam == centerOn([NewCamera EXCEPT !.zoom = zoom, !.targetZoom = zoom], p.x, p.y)
    IN  [cam EXCEPT !.x = cam.x + laps * WORLD_WIDTH]

\* A population: berries east and west of the player and a tree south of it,
\* all in view; a berry and a tree far out of view; n[k] of each.
SeasonPopulation(p, n) ==
    Row(p, East, px(50), px(8), "berry", n[1])
        \o Row(p, West, px(150), px(8), "berry", n[2])
        \o Row(p, South, px(60), px(50), "tree", n[3])
        \o Row(p, North, px(3000), px(8), "berry", n[4])
        \o Row(p, SouthEast, px(4000), px(50), "tree", n[5])

SeasonCounts == {n \in [1..5 -> {0, 1}] : n[1] + n[2] + n[3] + n[4] + n[5] \in 1..3}

RespawnCall ==
    /\ probe.op = "none"
    /\ \E p \in SeasonPlayers, n \in SeasonCounts, zoom \in DistanceZooms, laps \in {0, 1},
          seasonIndex \in 1..3, landTape \in GameTapes :
          \E cam \in {SeasonCamera(p, zoom, laps)} :
              probe' = [op |-> "respawn", p |-> p, cam |-> cam,
                        in |-> SeasonPopulation(p, n),
                        retained |-> onScreenObjects(SeasonPopulation(p, n),
                                                     getVisibleBounds(cam)),
                        out |-> respawnOffScreenObjects(SeasonPopulation(p, n), cam,
                                                        seasonIndex, p.size, landTape,
                                                        TapeOcean)]
    /\ UNCHANGED gameVars

SpecSeason == Init /\ [][RespawnCall]_vars

\* inside the camera's visible bounds plus the margin, on the torus: some
\* copy of the point, a whole number of worlds away, is inside them
OnScreenOnTorus(o, cam) ==
    \E kx \in -2..2, ky \in -2..2 :
        isOnScreen(o.x + kx * WORLD_WIDTH, o.y + ky * WORLD_HEIGHT, getVisibleBounds(cam))

\* C2 (as the specification states it): on a season transition every object
\* that is on-screen (inside the visible bounds plus margin on the toroidal
\* world, also when the view straddles a world edge or the player has gone
\* around the world) or permanent is retained unchanged, and every other
\* object is removed.
C2_OnScreenOrPermanentRetained ==
    probe.op = "respawn" =>
        /\ probe.retained
             = SelectSeq(probe.in, LAMBDA o : OnScreenOnTorus(o, probe.cam) \/ IsPermanent(o))
        /\ SubSeq(probe.out, 1, Len(probe.retained)) = probe.retained

-----------------------------------------------------------------------------
(* spawnObjectsAroundPlayer and spawnWorldObjects applied to drawn centres  *)
(* and tapes                                                               *)

SeedCentres == {<<WORLD_CENTER_X, WORLD_CENTER_Y>>, <<px(30), px(50)>>}

SeedTargetCounts == {1, 3, 40}

\* pattern draws: the widest grid, turned the other way, jittered inward
SpreadBack ==
    [count |-> 999, cols |-> 999, rot |-> 0,
     inst |-> <<[dir |-> West, r |-> 999, ocean |-> FALSE, sz |-> 0, jx |-> 0, jy |-> 0]>>]

TapeBarren == <<Draw(West, 500, "hills", 0, 0, 0, NoSpread)>>

TapeGridEdge ==
    <<Draw(NorthWest, 999, "farmland", 0, 0, 0, SpreadBack),
      Draw(West, 999, "meadow", 0, 800, 999, SpreadBack)>>

SeedTapes == GameTapes \cup {TapeBarren, TapeGridEdge}

SeedPlayerSizes == {px(12), px(60)}

SeedCall ==
    /\ probe.op = "none"
    /\ \E c \in SeedCentres, ring \in DOMAIN RingRadii, targetCount \in SeedTargetCounts,
          seasonIndex \in 0..3, playerSize \in SeedPlayerSizes, tape \in SeedTapes :
          probe' = [op |-> "seed", cx |-> c[1], cy |-> c[2], maxRadius |-> RingRadii[ring],
                    targetCount |-> targetCount, ringIndex |-> ring - 1,
                    out |-> spawnObjectsAroundPlayer(c[1], c[2], RingRadii[ring], targetCount,
                                ring - 1, getCurrentSeason(seasonIndex), playerSize, tape)]
    /\ UNCHANGED gameVars

SeedWorldCall ==
    /\ probe.op = "none"
    /\ \E c \in SeedCentres, seasonIndex \in 0..3, playerSize \in SeedPlayerSizes,
          tapes \in RingTapes :
          probe' = [op |-> "seedWorld", cx |-> c[1], cy |-> c[2], maxRadius |-> px(1000),
                    out |-> spawnWorldObjects([NoPlayer EXCEPT !.x = c[1], !.y = c[2],
                                                               !.size = playerSize],
                                              seasonIndex, tapes)]
    /\ UNCHANGED gameVars

NextSeed == SeedCall \/ SeedWorldCall

SpecSeed == Init /\ [][NextSeed]_vars

\* the toroidal distance of an object from a centre is at most r
WithinOf(o, cx, cy, r) == ~DistMore(WrappedDx(o.x, cx), WrappedDy(o.y, cy), r)

PatternReach(type) ==
    LET maxSize == ObjectTypes[type].maxSize
        pattern == ObjectTypes[type].spawnPattern
    IN  CASE pattern = "clustered" -> Max(px(60), 3 * maxSize)
          [] pattern = "grid" -> 6 * Max((3 * maxSize) \div 2, px(35))
          [] OTHER -> 0

-----------------------------------------------------------------------------
(* Player.canCollect applied to drawn sizes *)

\* Player sizes, in pixels.
CollectPlayerSizes == {px(12), px(20), px(40), px(100), px(380), px(1000), px(2500), px(3000)}

\* Object sizes around the thresholds of a player of size ps.
CollectObjectSizes(ps) ==
    {Scale(ps, k, 100) : k \in {10, 50, 79, 80, 81, 90, 94, 95, 96, 100, 125, 200}}
        \cup {Scale(ps, 95, 100) - 1, Scale(ps, 95, 100) + 1,
              Scale(ps, 80, 100) - 1, Scale(ps, 80, 100) + 1}

CanCollectCall ==
    /\ probe.op = "none"
    /\ \E ps \in CollectPlayerSizes : \E os \in CollectObjectSizes(ps) :
          probe' = [op |-> "canCollect", psize |-> ps, osize |-> os,
                    out |-> canCollect([NoPlayer EXCEPT !.size = ps],
                                       GameObject(0, 0, os, "berry"))]
    /\ UNCHANGED gameVars

SpecCollect == Init /\ [][CanCollectCall]_vars

C8_ManualRule80 ==
    probe.op = "canCollect" => (probe.out <=> 5 * probe.osize < 4 * probe.psize)

-----------------------------------------------------------------------------
(* GameObject.applyGravity, GameObject.update and the motion loop applied   *)
(* to drawn objects and players                                            *)

\* How many motion phases in a row an object is followed through.
MaxMotionSteps == 3

MotionPlayerPositions ==
    {<<px(120), px(90)>>, <<WORLD_CENTER_X, WORLD_CENTER_Y>>}

MotionPlayerSizes == {px(12), px(100), px(2500), px(3000)}

MotionPlayers ==
    {[NoPlayer EXCEPT !.x = xy[1], !.y = xy[2], !.size = s] :
        xy \in MotionPlayerPositions, s \in MotionPlayerSizes}

\* Where an object lies, relative to the player.
MotionOffsets ==
    {<<0, 0>>, <<50, 0>>, <<px(5), -px(3)>>, <<px(60), 0>>, <<-px(200), -px(150)>>,
     <<px(900), px(500)>>, <<px(12000), px(9000)>>}

\* An object's size, in sixtieths of the player's size.
MotionSizeRatios == {30, 50, 54, 57, 60}

\* Velocities within the cap.
MotionVelocities == {<<0, 0>>, <<px(15), 0>>, <<-px(9), px(12)>>, <<1, 0>>, <<-50, 20>>}

MotionObjects(p) ==
    {[GameObject(Wrap(p.x + d[1], WORLD_WIDTH), Wrap(p.y + d[2], WORLD_HEIGHT),
                 Scale(p.size, r, 60), "berry") EXCEPT !.vx = v[1], !.vy = v[2]] :
        d \in MotionOffsets, r \in MotionSizeRatios, v \in MotionVelocities}

\* Strengths of the pull: the game's, a weaker and a stronger one.
MotionStrengths == {1, gravityStrength, 4 * gravityStrength}

ApplyGravityCall ==
    /\ probe.op = "none"
    /\ \E p \in MotionPlayers : \E o \in MotionObjects(p) : \E strength \in MotionStrengths :
          probe' = [op |-> "applyGravity", p |-> p, in |-> o, strength |-> strength,
                    out |-> applyGravity(o, p.x, p.y, strength, p.size)]
    /\ UNCHANGED gameVars

UpdateCall ==
    /\ probe.op = "none"
    /\ \E p \in MotionPlayers : \E o \in MotionObjects(p) :
          probe' = [op |-> "update", p |-> p, in |-> o, out |-> GameObject_update(o)]
    /\ UNCHANGED gameVars

MotionCall ==
    /\ probe.op = "none"
    /\ \E p \in MotionPlayers : \E o \in MotionObjects(p) :
          probe' = [op |-> "motion", p |-> p, pre |-> <<o>>,
                    post |-> MotionStep(<<o>>, p), n |-> 1]
    /\ UNCHANGED gameVars

MotionAgain ==
    /\ probe.op = "motion"
    /\ probe.n < MaxMotionSteps
    /\ probe' = [probe EXCEPT !.pre = probe.post,
                              !.post = MotionStep(probe.post, probe.p),
                              !.n = probe.n + 1]
    /\ UNCHANGED gameVars

NextMotion == ApplyGravityCall \/ UpdateCall \/ MotionCall \/ MotionAgain

SpecMotion == Init /\ [][NextMotion]_vars

WithinCap(o) == o.vx * o.vx + o.vy * o.vy <= maxVel * maxVel

\* C6: an object's velocity magnitude is at most the cap (15): applyGravity
\* never leaves it above the cap, whatever the player's size, the strength
\* and the prior velocity within the cap; update does not increase either component; so the
\* velocity stays within the cap through repeated motion phases.
C6_VelocityWithinCap ==
    /\ probe.op = "applyGravity" => WithinCap(probe.out)
    /\ probe.op = "update" =>
          /\ Abs(probe.out.vx) <= Abs(probe.in.vx)
          /\ Abs(probe.out.vy) <= Abs(probe.in.vy)
    /\ probe.op = "motion" => \A i \in DOMAIN probe.post : WithinCap(probe.post[i])

\* C6 witness: a player of size 2500 or more pulled an object and the new
\* velocity was cut down to the cap.
C6_Witness ==
    /\ probe.op = "applyGravity"
    /\ probe.p.size >= px(2500)
    /\ <<probe.out.vx, probe.out.vy>> # <<probe.in.vx, probe.in.vy>>
    /\ ~WithinCap([probe.out EXCEPT !.vx = probe.out.vx + 3 * Sign(probe.out.vx),
                                    !.vy = probe.out.vy + 3 * Sign(probe.out.vy)])

\* The object lies farther from the player than the gravity radius
\* 0.6 * s * sqrt(s / 12), that is d^2 > 0.03 * s^3, in whole pixels.
OutsideGravityRadius(o, p) ==
    LET d == getWrappedDistance(o.x, o.y, p.x, p.y) \div Unit
        s == p.size \div Unit
    IN  (d * d) \div s > (3 * s * s) \div 100

\* C9: an object with zero velocity that is outside the player's gravity
\* radius, or that the player cannot collect, has the same position after the
\* force-and-motion phase of a tick as before it.
C9_RestingObjectStays ==
    probe.op = "motion" =>
        \A i \in DOMAIN probe.pre :
            LET o == probe.pre[i] IN
            (/\ o.vx = 0 /\ o.vy = 0
             /\ (OutsideGravityRadius(o, probe.p) \/ ~canCollect(probe.p, o)))
            => (probe.post[i].x = o.x /\ probe.post[i].y = o.y)

\* C9 witness: a collectible object at rest outside the gravity radius went
\* through the motion phase and kept its position.
C9_Witness ==
    /\ probe.op = "motion"
    /\ \E i \in DOMAIN probe.pre :
          /\ probe.pre[i].vx = 0 /\ probe.pre[i].vy = 0
          /\ canCollect(probe.p, probe.pre[i])
          /\ OutsideGravityRadius(probe.pre[i], probe.p)
          /\ probe.post[i].x = probe.pre[i].x /\ probe.post[i].y = probe.pre[i].y

-----------------------------------------------------------------------------
(* The attempts loop of spawnObjectsAroundPlayer, one iteration at a time   *)

\* a tape of farmland only: in winter its one entry admits no small player
TapeFarm == <<Draw(East, 300, "farmland", 0, 0, 500, SpreadBack)>>

SeedLoopTapes == {TapeCluster, TapeMixed, TapeBarren, TapeGridEdge, TapeFarm}

SeedLoopTargetCounts == {1, 3, 8}

\* spawnObjectsAroundPlayer: const attempts = targetCount * 5
attempts(targetCount) == targetCount * 5

\* spawnObjectsAroundPlayer: let spawned = 0, the loop about to start
SeedLoopBegin ==
    /\ probe.op = "none"
    /\ \E c \in SeedCentres, ring \in {1, 3}, targetCount \in SeedLoopTargetCounts,
          seasonIndex \in {0, 3}, playerSize \in SeedPlayerSizes, tape \in SeedLoopTapes :
          probe' = [op |-> "seeding", cx |-> c[1], cy |-> c[2], maxRadius |-> RingRadii[ring],
                    targetCount |-> targetCount, ringIndex |-> ring - 1,
                    season |-> getCurrentSeason(seasonIndex), playerSize |-> playerSize,
                    tape |-> tape, i |-> 0, spawned |-> 0, pushed |-> <<>>, returned |-> Undef]
    /\ UNCHANGED gameVars

\* the loop condition: i < attempts && spawned < targetCount
SeedLoopCondition == probe.i < attempts(probe.targetCount) /\ probe.spawned < probe.targetCount

\* one iteration of the loop: the pushes of one attempt, spawned++ with each
SeedLoopIterate ==
    /\ probe.op = "seeding"
    /\ SeedLoopCondition
    /\ \E got \in {SeedAttempt(probe.cx, probe.cy, probe.maxRadius, probe.ringIndex,
                               probe.season, probe.playerSize,
                               probe.targetCount - probe.spawned,
                               DrawAt(probe.tape, probe.i + 1))} :
          probe' = [probe EXCEPT !.i = probe.i + 1,
                                 !.spawned = probe.spawned + Len(got),
                                 !.pushed = probe.pushed \o got]
    /\ UNCHANGED gameVars

\* return spawned
SeedLoopReturn ==
    /\ probe.op = "seeding"
    /\ ~SeedLoopCondition
    /\ probe' = [probe EXCEPT !.op = "seeded", !.returned = probe.spawned]
    /\ UNCHANGED gameVars

\* spawnWorldObjects: the four rings, each run to its end
SeedRingsCall ==
    /\ probe.op = "none"
    /\ \E c \in SeedCentres, seasonIndex \in {0, 3}, playerSize \in SeedPlayerSizes,
          tape \in SeedLoopTapes :
          probe' = [op |-> "rings",
                    out |-> spawnWorldObjects([NoPlayer EXCEPT !.x = c[1], !.y = c[2],
                                                               !.size = playerSize],
                                              seasonIndex, <<tape, tape, tape, tape>>)]
    /\ UNCHANGED gameVars

NextSeedLoop == SeedLoopBegin \/ SeedLoopIterate \/ SeedLoopReturn \/ SeedRingsCall

SpecSeedLoop == Init /\ [][NextSeedLoop]_vars

RECURSIVE SumSeq(_)
SumSeq(q) == IF q = <<>> THEN 0 ELSE q[1] + SumSeq(Tail(q))

\* the counters of the loop stay within their budgets
SeedLoopWithinBudget ==
    /\ probe.op \in {"seeding", "seeded"} =>
          /\ probe.i <= attempts(probe.targetCount)
          /\ probe.spawned <= probe.targetCount
          /\ Len(probe.pushed) = probe.spawned
    /\ probe.op = "seeded" =>
          /\ probe.returned = Len(probe.pushed)
          /\ (\A k \in 1..probe.i :
                 BIOMES[DrawAt(probe.tape, k).biome].objects[probe.season] = <<>>
                 \/ ValidObjects(DrawAt(probe.tape, k).biome, probe.season,
                                 probe.playerSize) = <<>>)
             => probe.returned = 0
    /\ probe.op = "rings" => Len(probe.out) <= SumSeq(RingTargetCounts)

\* C11: spawnObjectsAroundPlayer ends after at most 5 * targetCount attempts
\* (every step of the loop either returns or uses up one more attempt, and
\* the attempts never exceed 5 * targetCount),
\* has then added at most targetCount objects and returns their number (the
\* four rings of spawnWorldObjects add at most the sum of their targets); when
\* no attempt lands on a biome with objects for the season, or no entry
\* admits the player's size, it adds nothing and returns 0.
C11_SeedingEndsWithinBudget ==
    /\ []SeedLoopWithinBudget
    /\ [][probe.op = "seeding" =>
              \/ probe'.op = "seeded" /\ ~SeedLoopCondition
              \/ probe'.op = "seeding" /\ probe'.i = probe.i + 1]_vars

\* C11 witness: a ring whose every attempt fell on farmland in winter, where
\* no entry admits the small player, used up its 5 * targetCount attempts
\* and returned 0.
C11_Witness ==
    /\ probe.op = "seeded"
    /\ probe.tape = TapeFarm /\ probe.season = "winter" /\ probe.playerSize = px(12)
    /\ probe.targetCount > 1
    /\ probe.i = attempts(probe.targetCount)
    /\ probe.returned = 0 /\ probe.pushed = <<>>

-----------------------------------------------------------------------------
(* The biome classifier (biomes.js: selectBiome).  Elevation, moisture,     *)
(* temperature, zone strength and the two noises are in 1/1000; a biome is  *)
(* named by its key in BIOMES.                                              *)

\* the keys of BIOMES that selectBiome reads ("9 biomes (8 land + ocean)")
BIOME_IDS ==
    {"ocean", "beach", "wetland", "meadow", "forest", "farmland", "village", "orchard",
     "hills"}

\* ANGULAR_ZONE_BIOMES: the biomes favoured by the eight sectors
ANGULAR_ZONE_BIOMES ==
    <<"meadow", "forest", "orchard", "farmland", "hills", "beach", "wetland", "orchard">>

\* variant of wetlandShoreBiome for sensitivity runs: no return after the if
wetlandShoreNoReturn(moisture) == IF moisture > 500 THEN "wetland" ELSE "undefined"

\* selectBiome: the wetland shore is wetland when moist, else beach
wetlandShoreBiome(moisture) == IF moisture > 500 THEN "wetland" ELSE "beach"

\* selectBiome: isVillageCore
isVillageCore(villageNoise, dist) == villageNoise > 750 /\ dist > 200 /\ dist < 700

\* variant of isVillageRing for sensitivity runs: the bounds of the core
isVillageRingAsCore(villageNoise, dist) == villageNoise > 550 /\ dist > 200 /\ dist < 700

\* selectBiome: isVillageRing
isVillageRing(villageNoise, dist) == villageNoise > 550 /\ dist > 150 /\ dist < 750

\* selectBiome: the rules on land, from the first return to the default
landBiome(elevation, moisture, temperature, zonePreference, zoneStrength, dist, villageNoise) ==
    IF isVillageCore(villageNoise, dist) /\ temperature > 400 /\ moisture < 600
    THEN "village"
    ELSE IF isVillageRing(villageNoise, dist) /\ villageNoise > 600 /\ moisture < 550
    THEN "farmland"
    ELSE IF isVillageRing(villageNoise, dist) /\ villageNoise > 550 /\ villageNoise <= 600
    THEN "orchard"
    ELSE IF zonePreference = "farmland" /\ zoneStrength > 500 /\ temperature > 450
            /\ moisture < 550
    THEN "farmland"
    ELSE IF zonePreference = "beach" /\ elevation < 300 THEN "beach"
    ELSE IF zonePreference = "wetland" /\ moisture > 600 THEN "wetland"
    ELSE IF elevation > 650 THEN "hills"
    ELSE IF (zonePreference = "forest" \/ (moisture > 550 /\ elevation > 400))
            /\ (zoneStrength > 400 \/ moisture > 600)
    THEN "forest"
    ELSE IF zonePreference = "orchard" /\ zoneStrength > 500 THEN "orchard"
    ELSE IF moisture > 750 THEN "wetland"
    ELSE "meadow"

\* selectBiome(elevation, moisture, temperature, zonePreference, zoneStrength,
\*             x, y, coastlineNoise, villageNoise): the key of the biome returned
selectBiome(elevation, moisture, temperature, zonePreference, zoneStrength, x, y, coastlineNoise, villageNoise) ==
    LET dist        == getDistanceFromCenter(x, y)
        terrainType == getTerrainType(dist, coastlineNoise)
    IN  IF terrainType = "ocean" THEN "ocean"
        ELSE IF terrainType = "beach" THEN "beach"
        ELSE IF terrainType = "wetland_shore" THEN wetlandShoreBiome(moisture)
        ELSE landBiome(elevation, moisture, temperature, zonePreference, zoneStrength,
                       dist, villageNoise)

\* Samples on each side of every threshold of the rules.
BiomeElevations == {200, 300, 500, 700}

BiomeMoistures == {450, 520, 550, 580, 620, 800}

BiomeTemperatures == {400, 430, 500}

BiomeZoneStrengths == {300, 500, 800}

BiomeVillageNoises == {500, 550, 580, 600, 700, 800}

\* Positions east of the centre, by their distance in 1/1000 island radii:
\* inside every ring, in the ring only, in the core, in the ring only, on
\* land outside the ring, on the beach, on the wetland shore, in the ocean.
BiomePositions ==
    {<<WORLD_CENTER_X + Scale(ISLAND_RADIUS_X, d, 1000), WORLD_CENTER_Y>> :
        d \in {100, 180, 500, 720, 800, 900, 1000, 1200}}

SelectBiomeCall ==
    /\ probe.op = "none"
    /\ \E elevation \in BiomeElevations, moisture \in BiomeMoistures,
          temperature \in BiomeTemperatures, zonePreference \in Range(ANGULAR_ZONE_BIOMES),
          zoneStrength \in BiomeZoneStrengths, pos \in BiomePositions,
          villageNoise \in BiomeVillageNoises :
          probe' = [op |-> "selectBiome", elevation |-> elevation, moisture |-> moisture,
                    temperature |-> temperature, zonePreference |-> zonePreference,
                    zoneStrength |-> zoneStrength, x |-> pos[1], y |-> pos[2],
                    coastlineNoise |-> 500, villageNoise |-> villageNoise,
                    out |-> selectBiome(elevation, moisture, temperature, zonePreference,
                                        zoneStrength, pos[1], pos[2], 500, villageNoise)]
    /\ UNCHANGED gameVars

\* the coastline moved by its noise: the same position falls in another band
SelectBiomeCoastCall ==
    /\ probe.op = "none"
    /\ \E moisture \in BiomeMoistures, pos \in BiomePositions, coastlineNoise \in {0, 1000},
          elevation \in {200, 700}, villageNoise \in {500, 800} :
          probe' = [op |-> "selectBiome", elevation |-> elevation, moisture |-> moisture,
                    temperature |-> 500, zonePreference |-> "forest",
                    zoneStrength |-> 800, x |-> pos[1], y |-> pos[2],
                    coastlineNoise |-> coastlineNoise, villageNoise |-> villageNoise,
                    out |-> selectBiome(elevation, moisture, 500, "forest", 800,
                                        pos[1], pos[2], coastlineNoise, villageNoise)]
    /\ UNCHANGED gameVars

NextBiome == SelectBiomeCall \/ SelectBiomeCoastCall

SpecBiome == Init /\ [][NextBiome]_vars

\* C12: for every elevation, moisture, temperature and noise in [0, 1], zone
\* and position, selectBiome returns one of the nine biomes, never undefined.
C12_SelectBiomeTotal == probe.op = "selectBiome" => probe.out \in BIOME_IDS

\* C12 witness: no rule matched and the default, meadow, was returned.
C12_Witness ==
    /\ probe.op = "selectBiome"
    /\ probe.out = "meadow"
    /\ probe.zonePreference = "hills" /\ probe.elevation <= 650 /\ probe.moisture <= 550
    /\ probe.villageNoise <= 550

\* The ordered rules of the classifier, for the inputs recorded in the probe:
\* each rule is its condition and its biome; the last one always matches.
BiomeRules ==
    LET dist    == getDistanceFromCenter(probe.x, probe.y)
        terrain == getTerrainType(dist, probe.coastlineNoise)
        land    == terrain \notin {"ocean", "beach", "wetland_shore"}
        inCore  == probe.villageNoise > 750 /\ dist > 200 /\ dist < 700
        inRing  == probe.villageNoise > 550 /\ dist > 150 /\ dist < 750
        zone    == probe.zonePreference
    IN  << [when |-> terrain = "ocean", biome |-> "ocean"],
           [when |-> terrain = "beach", biome |-> "beach"],
           [when |-> terrain = "wetland_shore" /\ probe.moisture > 500, biome |-> "wetland"],
           [when |-> terrain = "wetland_shore", biome |-> "beach"],
           [when |-> land /\ inCore /\ probe.temperature > 400 /\ probe.moisture < 600,
            biome |-> "village"],
           [when |-> land /\ inRing /\ probe.villageNoise > 600 /\ probe.moisture < 550,
            biome |-> "farmland"],
           [when |-> land /\ inRing /\ probe.villageNoise <= 600, biome |-> "orchard"],
           [when |-> land /\ zone = "farmland" /\ probe.zoneStrength > 500
                     /\ probe.temperature > 450 /\ probe.moisture < 550,
            biome |-> "farmland"],
           [when |-> land /\ zone = "beach" /\ probe.elevation < 300, biome |-> "beach"],
           [when |-> land /\ zone = "wetland" /\ probe.moisture > 600, biome |-> "wetland"],
           [when |-> land /\ probe.elevation > 650, biome |-> "hills"],
           [when |-> land /\ (zone = "forest" \/ (probe.moisture > 550 /\ probe.elevation > 400))
                     /\ (probe.zoneStrength > 400 \/ probe.moisture > 600),
            biome |-> "forest"],
           [when |-> land /\ zone = "orchard" /\ probe.zoneStrength > 500, biome |-> "orchard"],
           [when |-> land /\ probe.moisture > 750, biome |-> "wetland"],
           [when |-> land, biome |-> "meadow"] >>

FirstMatch(rules) == CHOOSE i \in 1..Len(rules) : rules[i].when /\ \A j \in 1..(i - 1) : ~rules[j].when

\* C13: selectBiome returns the biome of the first matching rule in the fixed
\* order ocean band, beach band, wetland shore (wetland if moisture > 0.5,
\* else beach), then on land village core, farmland ring, orchard ring, zone
\* farmland, zone beach, zone wetland, hills, forest, zone orchard, wetland,
\* meadow; no later rule overrides an earlier matching one.
C13_FirstMatchingRule ==
    probe.op = "selectBiome" =>
        /\ \E i \in 1..Len(BiomeRules) : BiomeRules[i].when
        /\ probe.out = BiomeRules[FirstMatch(BiomeRules)].biome

\* C13 witness: in the farmland ring with high elevation and a forest zone:
\* the ring rule matches first and the later hills and forest rules, which
\* match as well, do not override it.
C13_Witness ==
    /\ probe.op = "selectBiome"
    /\ probe.out = "farmland"
    /\ FirstMatch(BiomeRules) = 6
    /\ BiomeRules[11].when
    /\ probe.zonePreference = "forest" /\ probe.zoneStrength > 400

-----------------------------------------------------------------------------
(* The seeded generator (noise.js: SeededRandom, mulberry32).  A 32-bit     *)
(* word is the pair <<high half, low half>> of its 16-bit halves, so that   *)
(* every product and sum stays exact; the state, a number the code only     *)
(* ever reads through 32-bit operators, is kept modulo 2^32.  A value       *)
(* returned by next() is the numerator n of n / 4294967296, as a pair       *)
(* <<high, low>> standing for high * 65536 + low.                           *)

RECURSIVE Pow2(_)
Pow2(k) == IF k = 0 THEN 1 ELSE 2 * Pow2(k - 1)

Half == Pow2(16)

RECURSIVE BitXor(_, _)
BitXor(a, b) == IF a = 0 THEN b ELSE IF b = 0 THEN a ELSE (((a % 2) + (b % 2)) % 2) + 2 * BitXor(a \div 2, b \div 2)

RECURSIVE BitOr(_, _)
BitOr(a, b) == IF a = 0 THEN b ELSE IF b = 0 THEN a ELSE Max(a % 2, b % 2) + 2 * BitOr(a \div 2, b \div 2)

\* a + b on 32 bits
WordAdd(a, b) == <<(a[1] + b[1] + ((a[2] + b[2]) \div Half)) % Half, (a[2] + b[2]) % Half>>

\* a ^ b
WordXor(a, b) == <<BitXor(a[1], b[1]), BitXor(a[2], b[2])>>

\* a | c for a constant c below 2^16
WordOr(a, c) == <<a[1], BitOr(a[2], c)>>

\* a >>> k for 0 < k < 16
ShiftRight(a, k) == <<a[1] \div Pow2(k), (a[2] \div Pow2(k)) + (a[1] % Pow2(k)) * Pow2(16 - k)>>

\* the 32-bit product of two 16-bit halves, byte by byte
Mul16(a, b) == <<((a * (b % 256)) \div Half) + ((a * (b \div 256)) \div 256) + ((((a * (b % 256)) % Half) + ((a * (b \div 256)) % 256) * 256) \div Half), (((a * (b % 256)) % Half) + ((a * (b \div 256)) % 256) * 256) % Half>>

\* Math.imul(a, b): the low 32 bits of the product
imul(a, b) == <<(Mul16(a[2], b[2])[1] + Mul16(a[1], b[2])[2] + Mul16(a[2], b[1])[2]) % Half, Mul16(a[2], b[2])[2]>>

\* the result of a 32-bit operator read as a signed number (ToInt32)
ToInt32(a) == IF a[1] >= Half \div 2 THEN <<a[1] - Half, a[2]>> ELSE a

\* x >>> 0 (ToUint32)
ToUint32(a) == IF a[1] < 0 THEN <<a[1] + Half, a[2]>> ELSE a

\* new SeededRandom(seed)
SeededRandom(seed) == [seed |-> seed, state |-> seed]

\* next(): this.state += 0x6d2b79f5
nextState(g) == WordAdd(g.state, <<27947, 31221>>)

\* next(): t = Math.imul(t ^ (t >>> 15), t | 1)
nextMix1(t) == imul(WordXor(t, ShiftRight(t, 15)), WordOr(t, 1))

\* next(): t ^= t + Math.imul(t ^ (t >>> 7), t | 61)
nextMix2(t) == WordXor(t, WordAdd(t, imul(WordXor(t, ShiftRight(t, 7)), WordOr(t, 61))))

\* next(): ((t ^ (t >>> 14)) >>> 0) / 4294967296
nextValue(t) == ToUint32(ToInt32(WordXor(t, ShiftRight(t, 14))))

\* next(): the generator after the call and the value returned
next(g) == [g |-> [g EXCEPT !.state = nextState(g)], value |-> nextValue(nextMix2(nextMix1(nextState(g))))]

\* variant of reset for sensitivity runs: the state is left where it is
resetNothing(g) == g

\* reset()
reset(g) == [g EXCEPT !.state = g.seed]

MaxCalls == 5

\* seeds: 0, 1, the default 12345, 2^31 and 2^32 - 1
RandomSeeds == {<<0, 0>>, <<0, 1>>, <<0, 12345>>, <<32768, 0>>, <<65535, 65535>>}

\* two generators are constructed with the same seed
RandomConstruct ==
    /\ probe.op = "none"
    /\ \E seed \in RandomSeeds :
          probe' = [op |-> "random", a |-> SeededRandom(seed), b |-> SeededRandom(seed),
                    outA |-> <<>>, outB |-> <<>>, replay |-> FALSE]
    /\ UNCHANGED gameVars

RandomNextA ==
    /\ probe.op = "random"
    /\ Len(probe.outA) < MaxCalls
    /\ \E r \in {next(probe.a)} :
          probe' = [probe EXCEPT !.a = r.g, !.outA = Append(probe.outA, r.value)]
    /\ UNCHANGED gameVars

RandomNextB ==
    /\ probe.op = "random"
    /\ Len(probe.outB) < MaxCalls
    /\ \E r \in {next(probe.b)} :
          probe' = [probe EXCEPT !.b = r.g, !.outB = Append(probe.outB, r.value)]
    /\ UNCHANGED gameVars

\* the first generator is reset after some calls; its values are recorded anew
RandomResetA ==
    /\ probe.op = "random"
    /\ probe.outA # <<>>
    /\ probe' = [probe EXCEPT !.a = reset(probe.a), !.outA = <<>>, !.replay = TRUE]
    /\ UNCHANGED gameVars

NextRandom == RandomConstruct \/ RandomNextA \/ RandomNextB \/ RandomResetA

SpecRandom == Init /\ [][NextRandom]_vars

\* C14: two generators constructed with the same seed return the same values
\* call by call, every value is in [0, 1), and after reset() a generator
\* returns again the values of a fresh generator with that seed.
C14_SameSeedSameSequence ==
    probe.op = "random" =>
        /\ \A i \in 1..Min(Len(probe.outA), Len(probe.outB)) : probe.outA[i] = probe.outB[i]
        /\ \A v \in Range(probe.outA) \cup Range(probe.outB) :
              v[1] \in 0..(Half - 1) /\ v[2] \in 0..(Half - 1)

\* C14 witness: seed 12345, the first generator reset after use and called
\* three times again, the second one called three times: the values are
\* those of mulberry32 (0.9797..., 0.3067..., 0.4842...).
C14_Witness ==
    /\ probe.op = "random"
    /\ probe.replay
    /\ probe.a.seed = <<0, 12345>>
    /\ Len(probe.outA) = 3 /\ Len(probe.outB) = 3
    /\ probe.outA = <<<<64207, 30917>>, <<20103, 20736>>, <<31732, 58098>>>>

-----------------------------------------------------------------------------
(* Building the biome table (biomes.js: buildBiomes).  The raw table gives, *)
(* for each biome and season, a list of entries [id, weight]; OBJECTS is    *)
(* the object table, here ObjectTypes.                                      *)

\* names every object inherits from Object.prototype: OBJECTS[name] is the
\* inherited member, a truthy value, although the table has no such key
ObjectPrototypeNames == {"constructor", "toString", "valueOf", "hasOwnProperty"}

Null == [null |-> TRUE]

Undefined == [undefined |-> TRUE]

\* OBJECTS[id]
ObjectLookup(id) ==
    IF id \in TypeIds THEN ObjectTypes[id]
    ELSE IF id \in ObjectPrototypeNames
    THEN [emoji |-> "undefined", minSize |-> Undef, maxSize |-> Undef,
          spawnPattern |-> "undefined"]
    ELSE Undefined

\* buildBiomes: the callback of map
BuildEntry(objEntry) ==
    LET objDef == ObjectLookup(objEntry.id)
    IN  IF objDef = Undefined THEN Null
        ELSE [emoji |-> objDef.emoji, minSize |-> objDef.minSize, maxSize |-> objDef.maxSize,
              weight |-> objEntry.weight,
              spawnPattern |-> IF objDef.spawnPattern = "undefined" THEN "scattered"
                               ELSE objDef.spawnPattern]

\* biomeData.objects[season] || []
SeasonObjects(biomeData, season) ==
    IF season \in DOMAIN biomeData.objects THEN biomeData.objects[season] ELSE <<>>

\* seasonObjects.map(...).filter(obj => obj !== null)
BuildSeason(seasonObjects) ==
    SelectSeq([i \in DOMAIN seasonObjects |-> BuildEntry(seasonObjects[i])],
              LAMBDA obj : obj # Null)

\* buildBiomes(), for the raw table biomesData.biomes
buildBiomes(biomes) ==
    [biomeId \in DOMAIN biomes |->
        [objectDensity |-> biomes[biomeId].objectDensity,
         objects |-> [season \in Range(SEASON_CYCLE) |->
                         BuildSeason(SeasonObjects(biomes[biomeId], season))]]]

MaxEntries == 3

\* ids of entries: two of the table, one unknown, one unknown and inherited
EntryIds == {"berry", "tree", "ghost", "constructor"}

\* the lists of at most MaxEntries entries, the i-th with weight 1000 * i
EntryLists ==
    UNION {{[i \in 1..n |-> [id |-> ids[i], weight |-> 1000 * i]] : ids \in [1..n -> EntryIds]} :
              n \in 0..MaxEntries}

BuildBiomesCall ==
    /\ probe.op = "none"
    /\ \E spring \in EntryLists, winter \in {<<>>, <<[id |-> "ghost", weight |-> 500]>>} :
          \E biomes \in {[meadow |-> [objectDensity |-> 700,
                                       objects |-> [spring |-> spring, summer |-> spring,
                                                    winter |-> winter]],
                          hills  |-> [objectDensity |-> 400,
                                       objects |-> [spring |-> winter, summer |-> <<>>,
                                                    fall |-> <<>>, winter |-> winter]]]} :
             probe' = [op |-> "buildBiomes", biomes |-> biomes, out |-> buildBiomes(biomes)]
    /\ UNCHANGED gameVars

\* the table of the game is built as well
BuildGameBiomesCall ==
    /\ probe.op = "none"
    /\ \E biomes \in {[b \in BiomeIds |->
                         [objectDensity |-> BIOMES[b].objectDensity,
                          objects |-> [season \in Range(SEASON_CYCLE) |->
                                          [i \in DOMAIN BIOMES[b].objects[season] |->
                                              [id |-> BIOMES[b].objects[season][i],
                                               weight |-> ObjectTypes[BIOMES[b].objects[season][i]].weight]]]]]} :
          probe' = [op |-> "buildBiomes", biomes |-> biomes, out |-> buildBiomes(biomes)]
    /\ UNCHANGED gameVars

NextBuild == BuildBiomesCall \/ BuildGameBiomesCall

SpecBuild == Init /\ [][NextBuild]_vars

\* the entries of a raw list whose id is a key of the object table
KnownEntries(seasonObjects) == SelectSeq(seasonObjects, LAMBDA e : e.id \in TypeIds)

\* C15: buildBiomes skips every entry whose object id is absent from the
\* object table and still builds every biome: each per-season list has no
\* null and holds the entries with known ids, in their original order.
C15_UnknownIdsSkipped ==
    probe.op = "buildBiomes" =>
        /\ DOMAIN probe.out = DOMAIN probe.biomes
        /\ \A b \in DOMAIN probe.out : \A season \in Range(SEASON_CYCLE) :
              LET raw   == SeasonObjects(probe.biomes[b], season)
                  known == KnownEntries(raw)
                  built == probe.out[b].objects[season]
              IN  /\ \A i \in DOMAIN built : built[i] # Null
                  /\ Len(built) = Len(known)
                  /\ \A i \in DOMAIN built :
                        /\ built[i].weight = known[i].weight
                        /\ built[i].emoji = ObjectTypes[known[i].id].emoji

\* The same for ids that are not names of inherited members.
BuildBiomesSkipsPlainUnknownIds ==
    (probe.op = "buildBiomes"
        /\ \A b \in DOMAIN probe.biomes : \A season \in DOMAIN probe.biomes[b].objects :
              \A e \in Range(probe.biomes[b].objects[season]) : e.id \notin ObjectPrototypeNames)
    => C15_UnknownIdsSkipped

-----------------------------------------------------------------------------
(* Growth during play *)

\* Fields of one or two objects around a player at the centre of the world:
\* on the player, overlapping its edge, or far away; tiny, collectible or too
\* large to collect.
CollisionFields(ps) ==
    LET one == {GameObject(WORLD_CENTER_X + dx, WORLD_CENTER_Y, Scale(ps, k, 100), "berry") :
                   dx \in {px(1), ps \div 2, px(5000)}, k \in {2, 50, 96}}
    IN  {<<o>> : o \in one} \cup {<<o1, o2>> : o1 \in one, o2 \in one}

\* updateGame: the collision loop alone, on a field given to it
CollisionLoopCall ==
    /\ probe.op = "none"
    /\ gameState = GameStates.TITLE
    /\ \E ps \in {STARTING_SIZE, px(100)} : \E field \in CollisionFields(ps) :
          \E p \in {[NoPlayer EXCEPT !.x = WORLD_CENTER_X, !.y = WORLD_CENTER_Y, !.size = ps]} :
             probe' = [op |-> "collisions", player |-> p, objects |-> field,
                       out |-> CollisionLoop(Len(field),
                                  [player |-> p, objects |-> field, collectedCount |-> 0,
                                   gameState |-> GameStates.PLAYING])]
    /\ UNCHANGED gameVars

NextGrowth == Next \/ CollisionLoopCall

SpecGrowth == Init /\ [][NextGrowth]_vars

\* the collision loop on a given field: sizes before and after
CollisionLoopGrowth(call) ==
    LET n == call.out.collectedCount
    IN  /\ call.out.player.size >= call.player.size + n * (Unit \div 10)
        /\ n = 0 => call.out.player.size = call.player.size
        /\ n = 1 => \E i \in DOMAIN call.objects :
                       call.out.player.size
                          = call.player.size
                            + calculateGrowthAmount(call.objects[i].size, call.player.size)

\* C16: during play the player's size never decreases: a tick without a
\* collection (bounces included) and any other step leave it unchanged, and
\* each collection adds calculateGrowthAmount(object size, player size),
\* which is at least 0.1.
C16_SizeNeverDecreases ==
    [][/\ probe'.op = "collisions" => CollisionLoopGrowth(probe')
       /\ gameState = GameStates.PLAYING =>
             IF frames' = frames THEN player'.size = player.size
             ELSE /\ player'.size >= player.size + probe'.collected * (Unit \div 10)
                  /\ probe'.collected = 0 => player'.size = player.size
                  /\ probe'.collected = 1 =>
                        \E i \in DOMAIN objects :
                           player'.size = player.size + calculateGrowthAmount(objects[i].size, player.size)]_vars

\* C16 witness: a tick of play collected an object and the player, larger
\* than at the start, plays on.
C16_Witness ==
    /\ gameState = GameStates.PLAYING
    /\ probe.op = "tick" /\ probe.collected >= 1
    /\ player.size > STARTING_SIZE
    /\ collectedCount >= 1

\* On a field, a bounce without collection, and a collection at the floor 0.1.
CollisionLoopBounced ==
    /\ probe.op = "collisions"
    /\ probe.out.collectedCount = 0
    /\ probe.out.player.vx # probe.player.vx

CollisionLoopFloorGrowth ==
    /\ probe.op = "collisions"
    /\ probe.out.collectedCount = 1
    /\ probe.out.player.size = probe.player.size + Unit \div 10

-----------------------------------------------------------------------------
(* The seasons of a run, with the numbers of the source: ten seasons of     *)
(* 15 * 60 ticks.  Only the season clock of updateGame is stepped.          *)

SeasonsOfARun == 10

TicksOfASeason == 15 * 60

ClockStart ==
    /\ probe.op = "none"
    /\ probe' = [op |-> "clock", gameState |-> GameStates.PLAYING, currentSeasonIndex |-> 0,
                 seasonTimer |-> 0, seasons |-> <<getCurrentSeason(0)>>]
    /\ UNCHANGED gameVars

\* p.draw while playing: the season clock of updateGame; the season entered
\* is recorded when the run goes on
ClockTick ==
    /\ probe.op = "clock"
    /\ probe.gameState = GameStates.PLAYING
    /\ \E c \in {seasonClock(probe.currentSeasonIndex, probe.seasonTimer, probe.gameState,
                             SeasonsOfARun, TicksOfASeason)} :
          probe' = [probe EXCEPT !.gameState = c.gameState,
                                 !.currentSeasonIndex = c.currentSeasonIndex,
                                 !.seasonTimer = c.seasonTimer,
                                 !.seasons = IF c.turn /\ ~c.over
                                             THEN Append(@, getCurrentSeason(c.currentSeasonIndex))
                                             ELSE @]
    /\ UNCHANGED gameVars

NextClock == ClockStart \/ ClockTick

SpecClock == Init /\ [][NextClock]_vars

ClockSeasonsInOrder ==
    probe.op = "clock" =>
        /\ probe.currentSeasonIndex <= SeasonsOfARun
        /\ Len(probe.seasons) = Min(probe.currentSeasonIndex + 1, SeasonsOfARun)
        /\ \A i \in DOMAIN probe.seasons : probe.seasons[i] = SEASON_CYCLE[((i - 1) % 4) + 1]
        /\ probe.seasonTimer < TicksOfASeason
        /\ probe.gameState = GameStates.PLAYING <=> probe.currentSeasonIndex < SeasonsOfARun

ClockTurnsOnTime ==
    (probe.op = "clock" /\ probe'.op = "clock") =>
        /\ probe'.currentSeasonIndex \in {probe.currentSeasonIndex, probe.currentSeasonIndex + 1}
        /\ probe'.currentSeasonIndex = probe.currentSeasonIndex + 1
              <=> probe.seasonTimer + 1 = TicksOfASeason
        /\ probe'.currentSeasonIndex = probe.currentSeasonIndex + 1 => probe'.seasonTimer = 0
        /\ probe'.currentSeasonIndex = probe.currentSeasonIndex
              => probe'.seasonTimer = probe.seasonTimer + 1

-----------------------------------------------------------------------------
(* The end of a run: a large player about to consume the planet *)

\* A moment late in a run: the player at the centre, one collection short
\* of PLANET_CONSUME_SIZE or well below it, a tree under it, in the first
\* or the last season, on any tick of the season or on its last one.
LateInTheRun ==
    /\ probe.op = "none"
    /\ gameState = GameStates.TITLE
    /\ \E size \in {PLANET_CONSUME_SIZE - px(1) \div 5, PLANET_CONSUME_SIZE - px(100)},
          index \in {0, TOTAL_SEASONS - 1}, timer \in {0, SEASON_DURATION - 1},
          dx \in {px(1), px(20), px(4000)} :
          LET p == [x |-> WORLD_CENTER_X, y |-> WORLD_CENTER_Y, vx |-> 0, vy |-> 0, size |-> size]
              cam == [NewCamera EXCEPT
                         !.zoom = setTargetZoom(NewCamera, calculateZoom(size)).targetZoom,
                         !.targetZoom = setTargetZoom(NewCamera, calculateZoom(size)).targetZoom]
          IN  /\ player' = p
              /\ camera' = centerOn(cam, p.x, p.y)
              /\ objects' = <<GameObject(p.x + dx, p.y, px(50), "tree")>>
              /\ lastPlayerX' = p.x
              /\ lastPlayerY' = p.y
              /\ currentSeasonIndex' = index
              /\ seasonTimer' = timer
    /\ gameState' = GameStates.PLAYING
    /\ collectedCount' = 1
    /\ probe' = [op |-> "late"]
    /\ UNCHANGED <<spawnCheckCounter, dpad, frames>>

NextEnd == Next \/ LateInTheRun

SpecEnd == Init /\ [][NextEnd]_vars

\* a collection of this step brought the size to PLANET_CONSUME_SIZE or more
ConsumingTick ==
    /\ gameState = GameStates.PLAYING
    /\ frames' # frames
    /\ player.size < PLANET_CONSUME_SIZE
    /\ player'.size >= PLANET_CONSUME_SIZE

\* C18: when a collection brings the size to PLANET_CONSUME_SIZE or more, the
\* state at the end of that tick is PLANET_CONSUMED, also when the season timer
\* expires on that tick, and it stays so, the simulation no longer advanced,
\* until the start input restarts the game.
C18_ConsumedEndsTheRun ==
    [][/\ ConsumingTick => gameState' = GameStates.PLANET_CONSUMED
       /\ gameState = GameStates.PLANET_CONSUMED =>
             \/ gameState' = GameStates.PLANET_CONSUMED
                /\ UNCHANGED <<player, objects, camera, currentSeasonIndex, seasonTimer,
                               collectedCount, frames>>
             \/ gameState' = GameStates.PLAYING
                /\ player'.size = STARTING_SIZE /\ currentSeasonIndex' = 0]_vars

\* The planet was consumed on a tick that was not the last of the run.
ConsumedReached ==
    /\ gameState = GameStates.PLANET_CONSUMED
    /\ player.size >= PLANET_CONSUME_SIZE

\* The planet was consumed on the last tick of the last season: the state is
\* STATE.WIN, which STATE does not define.
ConsumedOverridden ==
    /\ gameState = GameStates.WIN
    /\ player.size >= PLANET_CONSUME_SIZE
    /\ currentSeasonIndex = TOTAL_SEASONS

-----------------------------------------------------------------------------
(* The cap of the distance pass: the comparator and the eviction *)

\* Objects around a player of the starting size: collectible ones within the
\* keep radius, two of them at the same distance; a tree within it, too large
\* to collect; two berries closer than one pixel; far objects, two of them
\* at the same distance.
CompareObjects(p) ==
    {Placed(p, East, px(50), px(8), "berry", 0), Placed(p, West, px(50), px(8), "berry", 0),
     Placed(p, South, px(40), px(50), "tree", 0), Placed(p, North, px(90), px(8), "berry", 0),
     Placed(p, East, px(1) \div 2, px(8), "berry", 0),
     Placed(p, West, px(1) \div 5, px(8), "berry", 0),
     Placed(p, East, px(1500), px(8), "berry", 0), Placed(p, West, px(1500), px(50), "tree", 0),
     Placed(p, North, px(900), px(8), "berry", 0)}

\* the comparator applied to the pairs of three objects
EvictionCompareCall ==
    /\ probe.op = "none"
    /\ \E p \in {[NoPlayer EXCEPT !.x = WORLD_CENTER_X, !.y = WORLD_CENTER_Y,
                                  !.size = STARTING_SIZE]} :
          \E a \in CompareObjects(p), b \in CompareObjects(p), c \in CompareObjects(p) :
             LET keepRadius == ZoomScaled(BASE_KEEP_RADIUS, 1000)
             IN  probe' = [op |-> "compare", a |-> a, b |-> b, c |-> c,
                           ab |-> EvictionCompare(a, b, p.x, p.y, keepRadius, p.size),
                           ba |-> EvictionCompare(b, a, p.x, p.y, keepRadius, p.size),
                           bc |-> EvictionCompare(b, c, p.x, p.y, keepRadius, p.size),
                           ac |-> EvictionCompare(a, c, p.x, p.y, keepRadius, p.size),
                           aa |-> EvictionCompare(a, a, p.x, p.y, keepRadius, p.size)]
    /\ UNCHANGED gameVars

NextCap == DistancePassCall \/ EvictionCompareCall

SpecCap == Init /\ [][NextCap]_vars

\* the rank of an object for the cap: 2 within the keep radius and
\* collectible, 1 within the keep radius, 0 outside
EvictionClass(o, p, zoom) ==
    IF NearCollectible(o, p, zoom) THEN 2
    ELSE IF Within(o, p.x, p.y, ZoomScaled(BASE_KEEP_RADIUS, zoom)) THEN 1
    ELSE 0

\* a has priority over b: a higher class, or the same class and nearer (a
\* distance below one pixel counting as one pixel)
Outranks(a, b, p, zoom) ==
    \/ EvictionClass(a, p, zoom) > EvictionClass(b, p, zoom)
    \/ /\ EvictionClass(a, p, zoom) = EvictionClass(b, p, zoom)
       /\ Max(getWrappedDistance(a.x, a.y, p.x, p.y), Unit)
            < Max(getWrappedDistance(b.x, b.y, p.x, p.y), Unit)

\* C19: when the cap is enforced exactly MAX_OBJECTS objects remain and no
\* evicted object has priority over a remaining one, under the order (near
\* and collectible) > (within the keep radius) > (smaller distance); the
\* comparator is a consistent ordering: antisymmetric and transitive.
C19_CapEvictsLowestPriority ==
    /\ CapEnforced =>
          /\ Len(probe.out.capped) = MAX_OBJECTS
          /\ \A e \in Removed(probe.out.kept, probe.out.capped) :
                \A i \in DOMAIN probe.out.capped :
                   ~Outranks(e, probe.out.capped[i], probe.p, probe.zoom)
    /\ probe.op = "compare" =>
          /\ probe.ab = -probe.ba
          /\ probe.aa = 0
          /\ (probe.ab > 0 /\ probe.bc > 0) => probe.ac > 0
          /\ (probe.ab >= 0 /\ probe.bc >= 0) => probe.ac >= 0

\* C19 witness: the cap evicted objects of two classes, a collectible one
\* within the keep radius among them, and every object it kept is of the
\* highest class and nearer than that one.
C19_Witness ==
    /\ CapEnforced
    /\ Len(probe.out.capped) = MAX_OBJECTS
    /\ \E e1, e2 \in Removed(probe.out.kept, probe.out.capped) :
          /\ EvictionClass(e1, probe.p, probe.zoom) = 2
          /\ EvictionClass(e2, probe.p, probe.zoom) < 2
          /\ \A i \in DOMAIN probe.out.capped : Outranks(probe.out.capped[i], e1, probe.p, probe.zoom)

\* The comparator was applied to three objects in strictly ascending order.
CompareChainReached ==
    /\ probe.op = "compare"
    /\ probe.ab > 0 /\ probe.bc > 0 /\ probe.ac > 0

-----------------------------------------------------------------------------
(* The gate of the distance pass *)

\* the counter reaches SPAWN_CHECK_INTERVAL on this call
PassDue == probe.counter + 1 >= SPAWN_CHECK_INTERVAL

\* the square of the toroidal displacement of the player from the position
\* last recorded, and of the threshold 50 / zoom
DisplacementSquared ==
    WrappedDx(probe.p.x, probe.lastPlayerX) * WrappedDx(probe.p.x, probe.lastPlayerX)
        + WrappedDy(probe.p.y, probe.lastPlayerY) * WrappedDy(probe.p.y, probe.lastPlayerY)

ThresholdSquared == ((px(50) * 1000) \div probe.zoom) * ((px(50) * 1000) \div probe.zoom)

\* C20: updateDistanceBasedSpawning changes the population only on a call
\* where the counter reaches SPAWN_CHECK_INTERVAL and the toroidal
\* displacement from the last recorded position is at least 50 / zoom;
\* otherwise population and recorded position are unchanged; the counter is
\* reset whenever it reaches the interval and the position is recorded
\* whenever the pass runs.
C20_PassOnlyWhenDueAndMoved ==
    probe.op = "distancePass" =>
        /\ ~(PassDue /\ DisplacementSquared >= ThresholdSquared) =>
              /\ probe.out.objects = probe.in
              /\ probe.out.lastPlayerX = probe.lastPlayerX
              /\ probe.out.lastPlayerY = probe.lastPlayerY
        /\ (PassDue /\ DisplacementSquared >= ThresholdSquared) =>
              /\ probe.out.lastPlayerX = probe.p.x
              /\ probe.out.lastPlayerY = probe.p.y
        /\ probe.out.spawnCheckCounter = IF PassDue THEN 0 ELSE probe.counter + 1

\* C20 witness: the counter reached the interval and the player had moved by
\* exactly the threshold, across the seam of the world: the pass ran and
\* changed the population.
C20_Witness ==
    /\ probe.op = "distancePass"
    /\ PassDue
    /\ DisplacementSquared = ThresholdSquared
    /\ probe.lastPlayerX > probe.p.x + WORLD_WIDTH \div 2
    /\ probe.out.objects # probe.in
    /\ probe.out.lastPlayerX = probe.p.x

\* The counter reached the interval one hundredth of a pixel short of the
\* threshold: objects beyond the despawn radius stayed.
PassSkippedBelowThreshold ==
    /\ probe.op = "distancePass"
    /\ PassDue
    /\ DisplacementSquared < ThresholdSquared
    /\ DisplacementSquared > 0
    /\ probe.out.objects = probe.in
    /\ \E i \in DOMAIN probe.in :
          ~Within(probe.in[i], probe.p.x, probe.p.y, ZoomScaled(BASE_DESPAWN_RADIUS, probe.zoom))

-----------------------------------------------------------------------------
(* The spawn loop of the distance pass *)

\* the objects the pass added, behind those the cap left
PassSpawned == SubSeq(probe.out.objects, Len(probe.out.capped) + 1, Len(probe.out.objects))

\* Math.min(despawnedCount + densityDeficit, availableSlots), from the
\* population given to the pass and the lists it kept
PassSpawnLimit ==
    Min(Len(probe.in) - Len(probe.out.kept)
          + densityDeficit(probe.out.capped, probe.p.x, probe.p.y,
                           ZoomScaled(BASE_SPAWN_RADIUS, probe.zoom) \div 2),
        MAX_OBJECTS - Len(probe.out.capped))

\* o lies between 0.8 and 1.2 spawn radii from the player (to a pixel: the
\* directions of the model are unit vectors to 1/1000)
InSpawnAnnulus(o) ==
    /\ ~Within(o, probe.p.x, probe.p.y,
               Scale(ZoomScaled(BASE_SPAWN_RADIUS, probe.zoom), 8, 10) - px(1))
    /\ Within(o, probe.p.x, probe.p.y,
              Scale(ZoomScaled(BASE_SPAWN_RADIUS, probe.zoom), 12, 10) + px(1))

\* C21: in an executed pass the number of objects added is at most
\* min(despawned + densityDeficit, MAX_OBJECTS - population after eviction),
\* so the population after the pass is at most MAX_OBJECTS, and every added
\* object lies at a toroidal distance between 0.8 and 1.2 spawn radii from
\* the player, hence inside the despawn radius and outside the keep radius.
C21_SpawnWithinSlotsAndAnnulus ==
    (probe.op = "distancePass" /\ probe.out.ran) =>
        /\ Len(PassSpawned) <= Max(0, PassSpawnLimit)
        /\ Len(probe.out.objects) <= MAX_OBJECTS
        /\ \A i \in DOMAIN PassSpawned :
              /\ InSpawnAnnulus(PassSpawned[i])
              /\ Within(PassSpawned[i], probe.p.x, probe.p.y,
                        ZoomScaled(BASE_DESPAWN_RADIUS, probe.zoom))
              /\ ~Within(PassSpawned[i], probe.p.x, probe.p.y,
                         ZoomScaled(BASE_KEEP_RADIUS, probe.zoom))

\* C21 witness: a pass despawned objects and added as many objects as its
\* limit allowed, more than one, across the seam of the world.
C21_Witness ==
    /\ probe.op = "distancePass" /\ probe.out.ran
    /\ Len(probe.out.kept) < Len(probe.in)
    /\ Len(PassSpawned) >= 2
    /\ Len(PassSpawned) = PassSpawnLimit
    /\ \E i \in DOMAIN PassSpawned : PassSpawned[i].x > probe.p.x + WORLD_WIDTH \div 2

\* The free slots under the cap, fewer than the objects lost and lacking,
\* limited the number added.
SpawnLimitedBySlots ==
    /\ probe.op = "distancePass" /\ probe.out.ran
    /\ Len(PassSpawned) >= 1
    /\ Len(PassSpawned) = MAX_OBJECTS - Len(probe.out.capped)
    /\ Len(probe.out.objects) = MAX_OBJECTS

-----------------------------------------------------------------------------
(* The pull of the player on an object *)

\* the representative of d modulo dim of magnitude at most dim / 2
ShortestOf(d, dim) == CHOOSE e \in {d, d - dim, d + dim} : 2 * Abs(e) <= dim

\* the velocity a call added to the object
AddedVx == probe.out.vx - probe.in.vx

AddedVy == probe.out.vy - probe.in.vy

\* the shortest toroidal vector from the object to the player, in pixels
TowardX == ShortestOf(probe.p.x - probe.in.x, WORLD_WIDTH) \div Unit

TowardY == ShortestOf(probe.p.y - probe.in.y, WORLD_HEIGHT) \div Unit

\* the added velocity points along the shortest vector: no component against
\* it, and parallel to it up to the rounding of the model (half a percent)
AddedAlongShortest ==
    /\ AddedVx * Sign(ShortestOf(probe.p.x - probe.in.x, WORLD_WIDTH)) >= 0
    /\ AddedVy * Sign(ShortestOf(probe.p.y - probe.in.y, WORLD_HEIGHT)) >= 0
    /\ Abs(AddedVx * TowardY - AddedVy * TowardX)
          <= Abs(TowardX) + Abs(TowardY) + Abs(AddedVx) + Abs(AddedVy)
               + (Abs(AddedVx * TowardY) + Abs(AddedVy * TowardX)) \div 200

\* C22: applyGravity changes an object's velocity only when the toroidal
\* distance d to the player satisfies 1 <= d <= gravityRadius and the
\* object's size is below 5/6 of the player's; the added velocity then points
\* along the shortest toroidal vector from the object to the player.  Objects
\* from 5/6 to 95% of the player's size, which the player can collect,
\* receive no force.
C22_PullOnlyInRangeAndSmall ==
    (probe.op = "applyGravity" /\ (AddedVx # 0 \/ AddedVy # 0)) =>
        /\ ~DistLess(ShortestOf(probe.p.x - probe.in.x, WORLD_WIDTH),
                     ShortestOf(probe.p.y - probe.in.y, WORLD_HEIGHT), px(1))
        /\ ~OutsideGravityRadius(probe.in, probe.p)
        /\ 6 * probe.in.size < 5 * probe.p.size
        /\ (probe.in.vx = 0 /\ probe.in.vy = 0) => AddedAlongShortest

\* C22 witness: an object at rest, half the player's size, on the other side
\* of the world's seam, east and south of the player by more than half the
\* world, was pulled farther east and south, across the seam.
C22_Witness ==
    /\ probe.op = "applyGravity"
    /\ probe.in.vx = 0 /\ probe.in.vy = 0
    /\ 2 * probe.in.size = probe.p.size
    /\ probe.in.x > probe.p.x + WORLD_WIDTH \div 2
    /\ probe.in.y > probe.p.y + WORLD_HEIGHT \div 2
    /\ probe.out.vx > 0 /\ probe.out.vy > 0

\* An object of nine tenths of the player's size, collectible and within the
\* gravity radius, kept its velocity.
CollectibleButNotPulled ==
    /\ probe.op = "applyGravity"
    /\ canCollect(probe.p, probe.in)
    /\ 10 * probe.in.size = 9 * probe.p.size
    /\ ~OutsideGravityRadius(probe.in, probe.p)
    /\ ~TooClose(TowardX * Unit, TowardY * Unit)
    /\ probe.out = probe.in

-----------------------------------------------------------------------------
(* An object coasting to rest.  Lengths are in millionths of a pixel here,  *)
(* so that the cut of 0.95 v to a whole number of units stays far below the *)
(* threshold 0.01 under which a velocity is set to 0.  update takes the     *)
(* world's dimensions as arguments; a 1000 x 500 world keeps positions in   *)
(* range at this resolution.                                                *)

FineUnit == Unit * Unit * Unit

RestWorldWidth == 1000 * FineUnit

RestWorldHeight == 500 * FineUnit

\* the first n with 15 * 0.95^n < 0.01
RestTicks == 143

\* velocities within the cap of 15, in millionths of a pixel: the cap itself, on
\* one axis and on both, around the threshold 0.01, and slow ones
RestVelocities ==
    {<<15 * FineUnit, 0>>, <<-9 * FineUnit, 12 * FineUnit>>, <<0, -15 * FineUnit>>,
     <<FineUnit \div 100, 0>>, <<10526, -10527>>, <<FineUnit, -3 * FineUnit>>, <<9999, 0>>, <<0, 0>>}

RestPositions == {<<FineUnit, FineUnit>>, <<RestWorldWidth - 5 * FineUnit, 50 * FineUnit>>}

RestBegin ==
    /\ probe.op = "none"
    /\ \E v \in RestVelocities, xy \in RestPositions :
          probe' = [op |-> "coast", n |-> 0, restAt |-> IF v = <<0, 0>> THEN 0 ELSE Undef,
                    o |-> [GameObject(xy[1], xy[2], 8 * FineUnit, "berry")
                              EXCEPT !.vx = v[1], !.vy = v[2]],
                    prev |-> [GameObject(xy[1], xy[2], 8 * FineUnit, "berry")
                                 EXCEPT !.vx = v[1], !.vy = v[2]]]
    /\ UNCHANGED gameVars

\* one tick without force: obj.update(WORLD_WIDTH, WORLD_HEIGHT)
RestUpdate ==
    /\ probe.op = "coast"
    /\ probe.n < RestTicks + 7
    /\ \E u \in {updateAt(probe.o, FineUnit, RestWorldWidth, RestWorldHeight)} :
          probe' = [probe EXCEPT !.n = probe.n + 1, !.o = u, !.prev = probe.o,
                                 !.restAt = IF probe.restAt = Undef /\ u.vx = 0 /\ u.vy = 0
                                            THEN probe.n + 1 ELSE probe.restAt]
    /\ UNCHANGED gameVars

NextRest == RestBegin \/ RestUpdate

SpecRest == Init /\ [][NextRest]_vars

\* one update took v to w: w is 0.95 v cut to a millionth, or 0 when
\* 0.95 |v| is below 0.01
DecayedOrStopped(v, w) ==
    IF 95 * Abs(v) < FineUnit
    THEN w = 0
    ELSE /\ Sign(w) = Sign(v)
         /\ 100 * Abs(w) <= 95 * Abs(v)
         /\ 95 * Abs(v) < 100 * (Abs(w) + 1)

\* C23: an object that receives no force comes to rest: each update
\* multiplies each velocity component by 0.95 and sets it to 0 once its
\* magnitude is below 0.01, so from any velocity within the cap both
\* components are exactly 0 after a bounded number of ticks (143) and the
\* position never changes afterwards.
C23_CoastsToRest ==
    probe.op = "coast" =>
        /\ probe.n >= 1 /\ (probe.prev.vx # 0 \/ probe.prev.vy # 0) =>
              /\ DecayedOrStopped(probe.prev.vx, probe.o.vx)
              /\ DecayedOrStopped(probe.prev.vy, probe.o.vy)
        /\ probe.n >= RestTicks => (probe.o.vx = 0 /\ probe.o.vy = 0)
        /\ (probe.restAt # Undef /\ probe.n > probe.restAt) => probe.o = probe.prev

\* C23 witness: from the cap, 15, the object moved for 142 ticks, came to
\* rest on the next and was updated again without moving.
C23_Witness ==
    /\ probe.op = "coast"
    /\ probe.restAt = 143
    /\ probe.n > probe.restAt
    /\ probe.o.vx = 0 /\ probe.o.vy = 0
    /\ probe.o = probe.prev

-----------------------------------------------------------------------------
(* spawnPatternObjects applied to drawn seeds, types and pattern draws      *)

PatternSeeds == {<<WORLD_CENTER_X, WORLD_CENTER_Y>>, <<px(30), px(50)>>, <<WORLD_WIDTH - px(1), WORLD_HEIGHT - px(1)>>}

PatternCounts == {0, 500, 999}

PatternColumns == {0, 999}

PatternRotations == {0, 500, 999}

\* per-instance draws: all on land, some in the ocean, all in the ocean
PatternInstanceTapes ==
    {<<[dir |-> East, r |-> 999, ocean |-> FALSE, sz |-> 999, jx |-> 999, jy |-> 999],
       [dir |-> NorthWest, r |-> 500, ocean |-> FALSE, sz |-> 0, jx |-> 0, jy |-> 0]>>,
     <<[dir |-> West, r |-> 999, ocean |-> FALSE, sz |-> 500, jx |-> 0, jy |-> 999],
       [dir |-> SouthEast, r |-> 999, ocean |-> TRUE, sz |-> 999, jx |-> 500, jy |-> 500],
       [dir |-> North, r |-> 0, ocean |-> FALSE, sz |-> 0, jx |-> 999, jy |-> 0]>>,
     <<[dir |-> South, r |-> 999, ocean |-> TRUE, sz |-> 0, jx |-> 500, jy |-> 500]>>}

PatternCall ==
    /\ probe.op = "none"
    /\ \E xy \in PatternSeeds, type \in DOMAIN ObjectTypes, count \in PatternCounts,
          cols \in PatternColumns, rot \in PatternRotations, inst \in PatternInstanceTapes :
          probe' = [op |-> "pattern", seedX |-> xy[1], seedY |-> xy[2], type |-> type,
                    pd |-> [count |-> count, cols |-> cols, rot |-> rot, inst |-> inst],
                    out |-> spawnPatternObjects(xy[1], xy[2], type,
                               [count |-> count, cols |-> cols, rot |-> rot, inst |-> inst])]
    /\ UNCHANGED gameVars

SpecPattern == Init /\ [][PatternCall]_vars

\* the places the expansion tries: 4 + floor(7 u) of a cluster, the cells
\* of a grid of 3 + floor(3 u) rows and 4 + floor(4 u) columns but its centre
PatternRows == 3 + (probe.pd.count * 3) \div 1000

PatternCols == 4 + (probe.pd.cols * 4) \div 1000

PatternPlaces ==
    CASE ObjectTypes[probe.type].spawnPattern = "clustered" ->
            1..(4 + (probe.pd.count * 7) \div 1000)
      [] ObjectTypes[probe.type].spawnPattern = "grid" ->
            {k \in 1..(PatternRows * PatternCols) :
                k - 1 # (PatternRows \div 2) * PatternCols + PatternCols \div 2}
      [] OTHER -> {}

\* C24: pattern expansion adds nothing for a scattered type, at most 4 to 10
\* instances for a clustered type and at most rows x cols - 1 (rows in 3..5,
\* cols in 4..7) for a grid type; it returns one instance for each place it
\* tries whose biome is not ocean and none for a place in the ocean, each
\* at a wrapped in-world position with a size within [minSize, maxSize].
C24_PatternExpansionBounded ==
    probe.op = "pattern" =>
        /\ ObjectTypes[probe.type].spawnPattern = "scattered" => probe.out = <<>>
        /\ ObjectTypes[probe.type].spawnPattern = "clustered" =>
              /\ Cardinality(PatternPlaces) \in 4..10
              /\ Len(probe.out) <= Cardinality(PatternPlaces)
        /\ ObjectTypes[probe.type].spawnPattern = "grid" =>
              /\ PatternRows \in 3..5 /\ PatternCols \in 4..7
              /\ Len(probe.out) <= PatternRows * PatternCols - 1
        /\ Len(probe.out) = Cardinality({k \in PatternPlaces : ~DrawAt(probe.pd.inst, k).ocean})
        /\ \A i \in 1..Len(probe.out) :
              /\ probe.out[i].x >= 0 /\ probe.out[i].x < WORLD_WIDTH
              /\ probe.out[i].y >= 0 /\ probe.out[i].y < WORLD_HEIGHT
              /\ probe.out[i].type = probe.type
              /\ probe.out[i].size >= ObjectTypes[probe.type].minSize
              /\ probe.out[i].size <= ObjectTypes[probe.type].maxSize

\* C24 witness: the largest grid, 5 rows of 7, around a seed at the world's
\* far corner, every cell on land: 34 instances, some wrapped to the near edge.
C24_Witness ==
    /\ probe.op = "pattern"
    /\ ObjectTypes[probe.type].spawnPattern = "grid"
    /\ probe.seedX = WORLD_WIDTH - px(1)
    /\ Len(probe.out) = 5 * 7 - 1
    /\ \E i \in 1..Len(probe.out) : probe.out[i].x < px(200)

\* a cluster that lost instances to the ocean: fewer than the places tried
ClusterThinnedByOcean ==
    /\ probe.op = "pattern"
    /\ ObjectTypes[probe.type].spawnPattern = "clustered"
    /\ Len(probe.out) > 0
    /\ Len(probe.out) < Cardinality(PatternPlaces)

-----------------------------------------------------------------------------
(* weightedRandomSelect applied to drawn lists, draws and agent sizes       *)

SelectLists ==
    {<<>>, <<"berry">>, <<"berry", "flower", "tree">>, <<"house", "tree">>,
     <<"wheat", "house">>, <<"tree", "house", "berry", "fish">>}

SelectDraws == {0, 1, 250, 500, 750, 998, 999}

SelectPlayerSizes == {px(12), px(20), px(60), px(110), px(200)}

SelectCall ==
    /\ probe.op = "none"
    /\ \E items \in SelectLists, r \in SelectDraws, playerSize \in SelectPlayerSizes :
          probe' = [op |-> "select", items |-> items, r |-> r, playerSize |-> playerSize,
                    out |-> weightedRandomSelect(items, r, playerSize)]
    /\ UNCHANGED gameVars

SpecSelect == Init /\ [][SelectCall]_vars

\* the adjusted weights of the first k entries, summed
WeightUpTo(k) == SumWeights(SubSeq(probe.items, 1, k), probe.playerSize)

\* the entry the cumulative draw lands on: the first whose cumulative
\* weight reaches rng.next() * totalWeight
DrawnEntry ==
    LET rand == MulDiv(WeightUpTo(Len(probe.items)), probe.r, 1000)
        k    == CHOOSE k \in 1..Len(probe.items) :
                    /\ rand <= WeightUpTo(k)
                    /\ \A j \in 1..(k - 1) : rand > WeightUpTo(j)
    IN  probe.items[k]

Collectible(type) == 100 * avgSize(type) <= 95 * probe.playerSize

\* C25: for a non-empty list weightedRandomSelect returns one of the list's
\* entries (null only for an empty list), chosen by a cumulative draw over
\* adjusted weights; every adjusted weight (base weight times factor) is
\* strictly positive: an entry of average size at most 0.95 x agent size
\* gets 1 to 5 times its base weight, more for a smaller size, and a larger
\* entry 1% to 100% of it.
C25_SelectsAnEntryByPositiveWeights ==
    probe.op = "select" =>
        /\ (probe.out = "null") <=> (probe.items = <<>>)
        /\ probe.items # <<>> =>
              /\ \E i \in 1..Len(probe.items) : probe.out = probe.items[i]
              /\ probe.out = DrawnEntry
        /\ \A i \in 1..Len(probe.items) :
              LET t == probe.items[i]
                  f == weightFactor(t, probe.playerSize)
              IN  /\ baseWeight(t) * f > 0
                  /\ 1000 * adjustedWeight(t, probe.playerSize) <= baseWeight(t) * f
                  /\ baseWeight(t) * f < 1000 * (adjustedWeight(t, probe.playerSize) + 1)
                  /\ Collectible(t) => f >= 1000 /\ f <= 5000
                  /\ ~Collectible(t) => f >= 10 /\ f <= 1000
                  /\ \A j \in 1..Len(probe.items) :
                        (Collectible(t) /\ avgSize(probe.items[j]) <= avgSize(t))
                            => weightFactor(probe.items[j], probe.playerSize) >= f

\* C25 witness: the last entry of a list of four is drawn, after an
\* obstacle held at the 1% floor and a boosted collectible.
C25_Witness ==
    /\ probe.op = "select"
    /\ Len(probe.items) = 4
    /\ probe.out = probe.items[4]
    /\ \E i \in 1..3 : weightFactor(probe.items[i], probe.playerSize) = 10
    /\ \E i \in 1..3 : weightFactor(probe.items[i], probe.playerSize) > 1000

\* an obstacle is the entry drawn
ObstacleSelected ==
    /\ probe.op = "select"
    /\ probe.items # <<>>
    /\ ~Collectible(probe.out)

-----------------------------------------------------------------------------
(* The permutation table of SimplexNoise and the table lookups of noise2D.  *)
(* A table is a sequence; entry k of the code is element k + 1.  A lookup   *)
(* outside the table gives undefined.                                      *)

PERM_SIZE == 256

\* rng.int(min, max): Math.floor(min + next() * (max + 1 - min)), the value
\* of next() being (hi * 2^16 + lo) / 2^32
int(g, min, max) ==
    LET r == next(g)
        n == max + 1 - min
    IN  [g |-> r.g, value |-> min + (r.value[1] * n + (r.value[2] * n) \div Half) \div Half]

At(tab, k) == IF k \in 0..(Len(tab) - 1) THEN tab[k + 1] ELSE Undef

\* [perm[i], perm[j]] = [perm[j], perm[i]]
swap(perm, i, j) == [perm EXCEPT ![i + 1] = perm[j + 1], ![j + 1] = perm[i + 1]]

\* variant of doubled for sensitivity runs: the table is returned single
doubledNot(perm) == perm

\* return [...perm, ...perm]
doubled(perm) == perm \o perm

\* i & 255, for an integer i of either sign
and255(i) == i % PERM_SIZE

\* the seeds of the noise generators of a world of seed 12345, and 0 and 2^32 - 1
NoiseSeeds == {<<0, 12345>>, <<0, 13345>>, <<0, 16345>>, <<0, 0>>, <<65535, 65535>>}

\* new SimplexNoise(seed), up to the filled table of generatePermutation
NoiseConstruct ==
    /\ probe.op = "none"
    /\ \E seed \in NoiseSeeds :
          probe' = [op |-> "shuffle", rng |-> SeededRandom(seed), i |-> PERM_SIZE - 1,
                    perm |-> [k \in 1..PERM_SIZE |-> k - 1]]
    /\ UNCHANGED gameVars

\* generatePermutation: one iteration of the shuffle
ShuffleStep ==
    /\ probe.op = "shuffle"
    /\ probe.i > 0
    /\ \E r \in {int(probe.rng, 0, probe.i)} :
          probe' = [probe EXCEPT !.rng = r.g, !.i = probe.i - 1,
                                 !.perm = swap(probe.perm, probe.i, r.value)]
    /\ UNCHANGED gameVars

\* generatePermutation returns; permMod12 is derived from the table
ShuffleReturn ==
    /\ probe.op = "shuffle"
    /\ probe.i = 0
    /\ probe' = [op |-> "noise", called |-> FALSE, cell |-> <<>>, permAt |-> <<>>,
                 modAt |-> <<>>, gi |-> <<>>, perm |-> doubled(probe.perm),
                 permMod12 |-> [k \in 1..Len(doubled(probe.perm)) |-> doubled(probe.perm)[k] % 12]]
    /\ UNCHANGED gameVars

\* the simplex cells of the calls: on both sides of 0 and of the table's ends
NoiseCellsI == {-257, -1, 0, 7, 255, 256}

NoiseCellsJ == -1..PERM_SIZE

\* noise2D: the table lookups for the cell (i, j); i1 = 1, j1 = 0 when
\* x0 > y0, else i1 = 0, j1 = 1
Noise2DLookups ==
    /\ probe.op = "noise"
    /\ ~probe.called
    /\ \E i \in NoiseCellsI, j \in NoiseCellsJ, i1 \in {0, 1} :
          LET ii == and255(i)
              jj == and255(j)
              j1 == 1 - i1
          IN  probe' = [probe EXCEPT
                  !.called = TRUE,
                  !.cell = <<i, j, i1>>,
                  !.permAt = <<jj, jj + j1, jj + 1>>,
                  !.modAt = <<ii + At(probe.perm, jj), ii + i1 + At(probe.perm, jj + j1),
                              ii + 1 + At(probe.perm, jj + 1)>>,
                  !.gi = <<At(probe.permMod12, ii + At(probe.perm, jj)),
                           At(probe.permMod12, ii + i1 + At(probe.perm, jj + j1)),
                           At(probe.permMod12, ii + 1 + At(probe.perm, jj + 1))>>]
    /\ UNCHANGED gameVars

NextNoise == NoiseConstruct \/ ShuffleStep \/ ShuffleReturn \/ Noise2DLookups

SpecNoise == Init /\ [][NextNoise]_vars

\* C26: the permutation table has 512 entries, its first 256 are a
\* permutation of 0..255 and entry i + 256 equals entry i; during the
\* shuffle the table stays a permutation of 0..255; for every integer cell
\* every table index computed in noise2D is in 0..511 and every gradient
\* index in 0..11.
C26_TableAndLookupsInBounds ==
    /\ probe.op = "shuffle" =>
          /\ Len(probe.perm) = 256
          /\ {probe.perm[k] : k \in 1..256} = 0..255
    /\ probe.op = "noise" =>
          /\ Len(probe.perm) = 512
          /\ {probe.perm[k] : k \in 1..256} = 0..255
          /\ \A k \in 1..256 : probe.perm[k + 256] = probe.perm[k]
          /\ probe.called =>
                /\ \A n \in 1..3 : probe.permAt[n] \in 0..511 /\ probe.modAt[n] \in 0..511
                /\ \A n \in 1..3 : probe.gi[n] \in 0..11

\* C26 witness: a shuffled table and a lookup at its last entry, 511, from
\* a cell left of 0 in the skewed grid.
C26_Witness ==
    /\ probe.op = "noise"
    /\ probe.called
    /\ probe.cell[1] < 0
    /\ probe.modAt[3] = 511
    /\ \E k \in 1..256 : probe.perm[k] # k - 1

\* a lookup of perm past its first half: entry 256
LookupPastFirstHalf ==
    /\ probe.op = "noise"
    /\ probe.called
    /\ probe.permAt[3] = 256

-----------------------------------------------------------------------------
(* getTerrainType applied to a distance, a distance further out and a      *)
(* coastline noise (distances in 1/1000 island radii, noise in 1/1000)      *)

TerrainDistances ==
    {0, 500, 699, 700, 701, 849, 850, 851, 949, 950, 999, 1000, 1049, 1050, 1199, 1200, 1500}

TerrainNoises == {0, 1, 250, 499, 500, 501, 750, 999, 1000}

TerrainCall ==
    /\ probe.op = "none"
    /\ \E dist \in TerrainDistances, further \in TerrainDistances, noise \in TerrainNoises :
          /\ dist <= further
          /\ probe' = [op |-> "terrain", dist |-> dist, further |-> further, noise |-> noise,
                       out |-> getTerrainType(dist, noise),
                       outFurther |-> getTerrainType(further, noise)]
    /\ UNCHANGED gameVars

SpecTerrain == Init /\ [][TerrainCall]_vars

\* the bands from the centre outward, numbered
BandRank(terrain) ==
    CASE terrain = "land" -> 0
      [] terrain = "beach" -> 1
      [] terrain = "wetland_shore" -> 2
      [] terrain = "ocean" -> 3

\* the band of an adjusted distance: thresholds 0.85, 0.95, 1.05
BandOf(adjustedDist) ==
    IF adjustedDist < 850 THEN 0
    ELSE IF adjustedDist < 950 THEN 1
    ELSE IF adjustedDist < 1050 THEN 2
    ELSE 3

\* C27: getTerrainType shifts the coastline by at most 15% of the island
\* radius: for a noise in [0, 1] the band is that of a distance adjusted by
\* at most 0.15 either way, a distance below 0.70 is land, a distance of
\* 1.20 or more is ocean, and for a fixed noise the band never moves inward
\* as the distance grows (land, beach, wetland_shore, ocean).
C27_CoastlineBands ==
    probe.op = "terrain" =>
        /\ BandRank(probe.out) >= BandOf(probe.dist - 150)
        /\ BandRank(probe.out) <= BandOf(probe.dist + 150)
        /\ probe.noise = 500 => BandRank(probe.out) = BandOf(probe.dist)
        /\ probe.dist < 700 => probe.out = "land"
        /\ probe.dist >= 1200 => probe.out = "ocean"
        /\ BandRank(probe.out) <= BandRank(probe.outFurther)

\* C27 witness: at noise 0 the coast is furthest in: just below 0.70 is
\* still land, and 0.70 itself is beach.
C27_Witness ==
    /\ probe.op = "terrain"
    /\ probe.noise = 0
    /\ probe.dist = 699 /\ probe.out = "land"
    /\ probe.further = 700 /\ probe.outFurther = "beach"

\* at noise 1 the coast is furthest out: wetland shore just below 1.20
ShoreJustInsideOcean ==
    /\ probe.op = "terrain"
    /\ probe.noise = 1000
    /\ probe.dist = 1199 /\ probe.out = "wetland_shore"
    /\ probe.further = 1200 /\ probe.outFurther = "ocean"

-----------------------------------------------------------------------------
(* The collision loop followed object by object, beside the game            *)

\* fields of three objects: two of CollisionFields and one more in front
CollisionTriples(ps) ==
    {<<GameObject(WORLD_CENTER_X, WORLD_CENTER_Y + px(2), Scale(ps, 96, 100), "berry")>> \o f :
        f \in CollisionFields(ps)}

CollideBegin ==
    /\ probe.op = "none"
    /\ gameState = GameStates.TITLE
    /\ \E ps \in {STARTING_SIZE, px(100)} :
          \E field \in CollisionFields(ps) \cup CollisionTriples(ps) :
             \E st \in {[player |-> [NoPlayer EXCEPT !.x = WORLD_CENTER_X, !.y = WORLD_CENTER_Y,
                                                     !.size = ps],
                         objects |-> field, collectedCount |-> 0,
                         gameState |-> GameStates.PLAYING]} :
                probe' = [op |-> "collide", start |-> field, player |-> st.player,
                          i |-> Len(field), n |-> 0,
                          prev |-> st, st |-> st]
    /\ UNCHANGED gameVars

\* one iteration: for (let i = objects.length - 1; i >= 0; i--)
CollideExamine ==
    /\ probe.op = "collide"
    /\ gameState = GameStates.TITLE
    /\ probe.i >= 1
    /\ probe' = [probe EXCEPT !.i = probe.i - 1, !.n = probe.n + 1, !.prev = probe.st,
                              !.st = CollisionStep(probe.i, probe.st)]
    /\ UNCHANGED gameVars

NextCollide == Next \/ CollideBegin \/ CollideExamine

SpecCollide == Init /\ [][NextCollide]_vars

Without(seq, k) == SubSeq(seq, 1, k - 1) \o SubSeq(seq, k + 1, Len(seq))

\* the last iteration examined the object the field had at index k
ExaminedOnce(k) ==
    /\ k = Len(probe.start) - probe.n + 1
    /\ probe.prev.objects[k] = probe.start[k]
    /\ probe.i = k - 1

\* what the last iteration did with the object it examined
ExaminedOutcome(k) ==
    LET obj     == probe.prev.objects[k]
        overlap == collidesWith(probe.prev.player, obj)
        admit   == canCollect(probe.prev.player, obj)
    IN  /\ (overlap /\ admit) =>
              /\ probe.st.objects = Without(probe.prev.objects, k)
              /\ probe.st.collectedCount = probe.prev.collectedCount + 1
        /\ (overlap /\ ~admit) =>
              /\ probe.st.objects = probe.prev.objects
              /\ probe.st.collectedCount = probe.prev.collectedCount
              /\ probe.st.gameState = probe.prev.gameState
              /\ probe.st.player
                    = [probe.prev.player EXCEPT !.vx = probe.st.player.vx,
                                                !.vy = probe.st.player.vy]
        /\ ~overlap => probe.st = probe.prev

\* C28: in the collision phase each live object is examined exactly once;
\* an overlapping object that canCollect admits is removed from the
\* population and collectedCount increases by one, an overlapping object it
\* does not admit stays unchanged and only the agent's velocity changes;
\* the population never contains an object with collected = true.
C28_CollisionPhase ==
    /\ \A k \in DOMAIN objects : ~objects[k].collected
    /\ probe.op = "collide" =>
          /\ \A k \in DOMAIN probe.st.objects : ~probe.st.objects[k].collected
          /\ probe.n >= 1 =>
                /\ ExaminedOnce(probe.i + 1)
                /\ ExaminedOutcome(probe.i + 1)
          /\ probe.i = 0 => probe.n = Len(probe.start)

\* C28 witness: a field of three was examined to the end; the object at the
\* back was collected, and the one in front, too large before, was then
\* small enough for the grown agent and was collected as well.
C28_Witness ==
    /\ probe.op = "collide"
    /\ Len(probe.start) = 3
    /\ probe.i = 0
    /\ probe.st.collectedCount >= 2
    /\ collidesWith(probe.player, probe.start[1])
    /\ ~canCollect(probe.player, probe.start[1])
    /\ probe.st.objects = Without(probe.prev.objects, 1)
    /\ gameState = GameStates.TITLE

\* an overlapping object was not admitted: it stayed and the agent bounced
ExaminedAndBounced ==
    /\ probe.op = "collide"
    /\ probe.n >= 1
    /\ probe.st.objects = probe.prev.objects
    /\ probe.st.player.vx # probe.prev.player.vx

-----------------------------------------------------------------------------
(* The state of the game and the frame loop                                 *)

\* the values STATE declares; p.draw has a case for each of them
DeclaredStates == {GameStates.TITLE, GameStates.PLAYING, GameStates.PLANET_CONSUMED}

\* C29 (as the specification states it): in every reachable state gameState
\* is one of the declared STATE values (title, playing, planet_consumed),
\* each handled by the frame loop; in particular the state entered when the
\* last season ends is a declared one, from which a new game can begin.
C29_StateDeclared == gameState \in DeclaredStates

\* the last season ended: gameState holds the value of STATE.WIN, undefined,
\* for which the frame loop has no case, and no step of the game follows
LastSeasonEndedUndeclared ==
    /\ gameState = GameStates.WIN
    /\ gameState \notin DeclaredStates
    /\ currentSeasonIndex = TOTAL_SEASONS
    /\ ~ENABLED Next

-----------------------------------------------------------------------------
(* The camera of a game followed over many ticks: updateGame sets the       *)
(* target zoom from the player's size and lets the camera follow.           *)

MaxZoomSteps == 150

\* sizes whose zoom is clamped from above (39.3 -> 4.5 -> 2), is in range
\* (1.31), and is clamped from below (0.008 -> 0.1 -> 0.15)
ZoomSizes == {px(1), px(30), px(5000)}

\* startGame: new Camera(...), centred on the player
ZoomBegin ==
    /\ probe.op = "none"
    /\ \E size \in ZoomSizes :
          probe' = [op |-> "zoom", n |-> 0, resized |-> FALSE,
                    p |-> [NoPlayer EXCEPT !.x = WORLD_CENTER_X, !.y = WORLD_CENTER_Y,
                                           !.size = size],
                    cam |-> centerOn(NewCamera, WORLD_CENTER_X, WORLD_CENTER_Y)]
    /\ UNCHANGED gameVars

\* updateGame: camera.setTargetZoom(calculateZoom()); camera.follow(player)
ZoomFollow ==
    /\ probe.op = "zoom"
    /\ probe.n < MaxZoomSteps
    /\ probe' = [probe EXCEPT !.n = probe.n + 1,
                              !.cam = follow(setTargetZoom(probe.cam, calculateZoom(probe.p.size)),
                                             probe.p)]
    /\ UNCHANGED gameVars

\* the player's size changes, once in a run
ZoomResize ==
    /\ probe.op = "zoom"
    /\ ~probe.resized
    /\ \E size \in ZoomSizes \ {probe.p.size} :
          probe' = [probe EXCEPT !.resized = TRUE, !.p = [probe.p EXCEPT !.size = size]]
    /\ UNCHANGED gameVars

NextZoom == ZoomBegin \/ ZoomFollow \/ ZoomResize

SpecZoom == Init /\ [][NextZoom]_vars

\* one follow step moved the zoom 0.03 of the way to the target, cut to a
\* thousandth
MovedTowardTarget(zoom, target, after) ==
    /\ after = zoom \/ Sign(after - zoom) = Sign(target - zoom)
    /\ 100 * Abs(after - zoom) <= 3 * Abs(target - zoom)
    /\ 3 * Abs(target - zoom) < 100 * (Abs(after - zoom) + 1)

ZoomNearTwo ==
    /\ probe.op = "zoom"
    /\ probe.cam.targetZoom = 2000
    /\ probe.cam.zoom > 1950

====
